---- MODULE Spec2Model ----
(***************************************************************************)
(* Model of the content-ai-agent pipeline: the scheduler                   *)
(* (modules/scheduler.py), the hypothesis stage engine and the             *)
(* orchestrator (main.py), the strategy synthesizer                        *)
(* (modules/content_strategy.py), the content piece generator              *)
(* (modules/content_agent.py) and the level screen of the web front end    *)
(* (web_app.py, render_deep_impact).                                       *)
(***************************************************************************)
EXTENDS Integers, Sequences, FiniteSets, TLC

VARIABLES
    schedule,       \* ContentScheduler.schedule: channel -> list of ScheduledPost
    schedule_keys,  \* the key order of the dict ContentScheduler.schedule
    schedCall,      \* the last scheduler call and its arguments
    metrics,        \* SimpleAnalytics.metrics: content id -> ContentMetrics
    now,            \* datetime.now(), in minutes since the epoch
    llm_client,     \* ContentAIAgent.llm_client: TRUE when a gateway is configured
    hypotheses,     \* DeepImpactFramework.hypotheses: level -> LevelResult
    genCall,        \* the last generate_hypotheses call: arguments, gateway calls, result
    cursor,         \* the level a caller that follows "next_level" generates next
    visited,        \* the levels that caller has generated, in order
    hypothesis_levels,          \* st.session_state.hypothesis_levels
    selected_hypothesis_level,  \* st.session_state.selected_hypothesis_level
    genCount,       \* the number of generate_hypotheses calls the screen has made
    product_profile,    \* ContentAIAgent.product_profile: None or <<profile>>
    audience_insights,  \* ContentAIAgent.audience_insights: <<>> for {} or <<insight>>
    strategy,           \* ContentAIAgent.strategy: None or <<strategy>>
    current_stage,      \* ContentAIAgent.current_stage
    content_history,    \* AIContentAgent.content_history
    batches,            \* the number of batches generate_content_batch has started
    pipeCall            \* the last orchestrator call: arguments, gateway replies, outcome

schedVars == <<schedule, schedule_keys, schedCall, metrics, now>>

genVars == <<hypotheses, genCall, cursor, visited>>

webVars == <<hypothesis_levels, selected_hypothesis_level, genCount>>

pipeVars == <<product_profile, audience_insights, strategy, current_stage,
              content_history, batches, pipeCall>>

vars == <<schedule, schedule_keys, schedCall, metrics, now, llm_client, hypotheses, genCall, cursor, visited,
          hypothesis_levels, selected_hypothesis_level, genCount,
          product_profile, audience_insights, strategy, current_stage,
          content_history, batches, pipeCall>>

\* ------------------------------------------------------------------------
\* Bounds of the model
\* ------------------------------------------------------------------------

\* the longest list of content pieces handed to create_schedule
MaxPieces == 12

\* the largest posts_per_week handed to create_schedule
MaxPostsPerWeek == 6

\* the latest start day (days since an epoch) handed to create_schedule
MaxStartDay == 3

\* ------------------------------------------------------------------------
\* Helpers
\* ------------------------------------------------------------------------

Min(a, b) == IF a < b THEN a ELSE b

Range(s) == {s[i] : i \in DOMAIN s}

\* Python's None, where the value is otherwise a sequence
None == <<>>

\* Python's None, where the value is otherwise a level name
NoLevel == "None"

\* ------------------------------------------------------------------------
\* config.py
\* ------------------------------------------------------------------------

\* Config.OPTIMAL_POSTING_TIMES, each "HH:MM" already split into <<hour, minute>>
\* as create_schedule does with map(int, time_str.split(':'))
OPTIMAL_POSTING_TIMES ==
    [linkedin |-> << <<9, 0>>, <<13, 0>>, <<17, 0>> >>,
     twitter  |-> << <<8, 0>>, <<12, 0>>, <<16, 0>>, <<20, 0>> >>,
     telegram |-> << <<8, 0>>, <<13, 0>>, <<18, 0>> >>]

\* the default of OPTIMAL_POSTING_TIMES.get(channel, [...]) in create_schedule
DefaultPostingTimes == << <<9, 0>>, <<13, 0>>, <<17, 0>> >>

\* the channels the calls of the model name: two configured ones and one unknown
Channels == {"linkedin", "twitter", "email"}

\* ------------------------------------------------------------------------
\* modules/scheduler.py
\* ------------------------------------------------------------------------

\* a datetime at minute resolution: minutes since the epoch day 0, 00:00
DateTime(day, hour, minute) == day * 1440 + hour * 60 + minute

\* ScheduledPost(...) as create_schedule and add_to_schedule construct it; the id
\* f"schedule_{channel}_{scheduled_time.strftime('%Y%m%d%H%M')}" is the pair of
\* the channel and the time at minute resolution
ScheduledPost(content, scheduled_time, channel) ==
    [id             |-> <<channel, scheduled_time>>,
     content        |-> content,
     scheduled_time |-> scheduled_time,
     channel        |-> channel,
     status         |-> "draft",
     published      |-> FALSE,
     published_at   |-> None]

OptimalTimes(channel) ==
    IF channel \in DOMAIN OPTIMAL_POSTING_TIMES
        THEN OPTIMAL_POSTING_TIMES[channel]
        ELSE DefaultPostingTimes

\* the loop "for day in range(5)" of one week; st = [content_index, current_date, posts]
RECURSIVE DayLoop(_, _, _, _, _)
DayLoop(content_pieces, channel, posts_this_week, day, st) ==
    IF day >= 5 THEN st
    ELSE IF st.content_index >= Len(content_pieces) THEN st      \* break
    ELSE
        LET optimal_times == OptimalTimes(channel)
            time_index == day % Len(optimal_times)
            hm == optimal_times[time_index + 1]
            scheduled_time == DateTime(st.current_date, hm[1], hm[2])
            post == ScheduledPost(content_pieces[st.content_index + 1],
                                  scheduled_time, channel)
            filled ==
                IF day < posts_this_week
                    THEN [st EXCEPT !.posts = Append(@, post),
                                    !.content_index = @ + 1]
                    ELSE st
        IN DayLoop(content_pieces, channel, posts_this_week, day + 1,
                   [filled EXCEPT !.current_date = @ + 1])

\* the week loop without the two days of the weekend after each week
RECURSIVE WeekLoopNoWeekend(_, _, _, _, _)
WeekLoopNoWeekend(content_pieces, channel, posts_per_week, week, st) ==
    IF week >= 4 THEN st
    ELSE
        LET posts_this_week ==
                Min(posts_per_week, Len(content_pieces) - st.content_index)
            after == DayLoop(content_pieces, channel, posts_this_week, 0, st)
        IN WeekLoopNoWeekend(content_pieces, channel, posts_per_week, week + 1, after)

\* the loop "for week in range(4)" of one channel
RECURSIVE WeekLoop(_, _, _, _, _)
WeekLoop(content_pieces, channel, posts_per_week, week, st) ==
    IF week >= 4 THEN st
    ELSE
        LET posts_this_week ==
                Min(posts_per_week, Len(content_pieces) - st.content_index)
            after == DayLoop(content_pieces, channel, posts_this_week, 0, st)
        IN WeekLoop(content_pieces, channel, posts_per_week, week + 1,
                    [after EXCEPT !.current_date = @ + 2])

\* the state a channel starts with when the piece cursor is carried over from
\* the channel before it instead of being reset
ChannelStartShared(start_date, carried) ==
    [content_index |-> carried, current_date |-> start_date, posts |-> <<>>]

\* the state every channel starts with: current_date = start_date, content_index = 0
ChannelStart(start_date, carried) ==
    [content_index |-> 0, current_date |-> start_date, posts |-> <<>>]

\* the loop "for channel in channels": schedule[channel] = [] and then its weeks;
\* acc = [schedule, content_index]
RECURSIVE ChannelLoop(_, _, _, _, _, _)
ChannelLoop(content_pieces, start_date, channels, posts_per_week, i, acc) ==
    IF i > Len(channels) THEN acc.schedule
    ELSE
        LET channel == channels[i]
            done == WeekLoop(content_pieces, channel, posts_per_week, 0,
                             ChannelStart(start_date, acc.content_index))
            others == [c \in DOMAIN acc.schedule \ {channel} |-> acc.schedule[c]]
        IN ChannelLoop(content_pieces, start_date, channels, posts_per_week, i + 1,
                       [schedule |-> (channel :> done.posts) @@ others,
                        content_index |-> done.content_index])

\* ContentScheduler.create_schedule: the schedule it builds, stores and returns
create_schedule(content_pieces, start_date, channels, posts_per_week) ==
    ChannelLoop(content_pieces, start_date, channels, posts_per_week, 1,
                [schedule |-> <<>>, content_index |-> 0])

\* the key order of the dict create_schedule builds: every channel at the place
\* of its first occurrence in channels
KeyOrder(channels) ==
    LET IsFirst(i) == \A j \in 1..(i - 1) : channels[j] # channels[i]
        firsts == {i \in DOMAIN channels : IsFirst(i)}
        Place(i) == Cardinality({j \in firsts : j <= i})
    IN [k \in 1..Cardinality(firsts) |->
           channels[CHOOSE i \in firsts : Place(i) = k]]

\* the content piece lists of the model: pieces 1..n, each once
PieceList(n) == [i \in 1..n |-> i]

\* the channel lists of the model: one channel, or two (a configured pair in both
\* orders, a pair with an unknown channel, one channel twice)
ChannelLists ==
    {<<c>> : c \in Channels} \cup
    {<<"linkedin", "twitter">>, <<"twitter", "linkedin">>,
     <<"email", "twitter">>, <<"linkedin", "linkedin">>}

\* the piece counts of the model: none, one, a full week, a week and one, the most
PieceCounts == {0, 1, 5, 6, MaxPieces}

StartDays == {0, MaxStartDay}

\* a store that appends the posts built to the posts the scheduler holds
StoreScheduleAccumulating(held, built) ==
    [c \in DOMAIN held \cup DOMAIN built |->
        (IF c \in DOMAIN held THEN held[c] ELSE <<>>) \o
        (IF c \in DOMAIN built THEN built[c] ELSE <<>>)]

\* self.schedule = schedule
StoreSchedule(held, built) == built

\* the record of a create_schedule call; repeat says that the call before it was
\* a create_schedule call with the same arguments
CreateCall(last, content_pieces, start_date, channels, posts_per_week) ==
    [op |-> "create_schedule",
     content_pieces |-> content_pieces,
     start_date |-> start_date,
     channels |-> channels,
     posts_per_week |-> posts_per_week,
     repeat |-> /\ last.op = "create_schedule"
                /\ last.content_pieces = content_pieces
                /\ last.start_date = start_date
                /\ last.channels = channels
                /\ last.posts_per_week = posts_per_week]

CreateSchedule ==
    \E n \in PieceCounts, start_date \in StartDays,
       channels \in ChannelLists, posts_per_week \in 0..MaxPostsPerWeek :
        /\ schedule' = StoreSchedule(schedule,
                                     create_schedule(PieceList(n), start_date, channels,
                                                     posts_per_week))
        /\ schedule_keys' = KeyOrder(channels)
        /\ schedCall' = CreateCall(schedCall, PieceList(n), start_date, channels,
                                   posts_per_week)
        /\ UNCHANGED <<metrics, now>>

\* ------------------------------------------------------------------------
\* main.py: the hypothesis stage engine
\* ------------------------------------------------------------------------

\* level_order in generate_hypotheses, levels in _get_next_level
LevelOrder == <<"market", "niche", "audience", "segment", "pain", "task">>

Levels == Range(LevelOrder)

\* level names that are not levels
UnknownLevels == {"", "tasks"}

\* levels.index(level): the 0-based position, -1 standing for ValueError
LevelIndex(level) ==
    IF level \in Levels
        THEN (CHOOSE i \in DOMAIN LevelOrder : LevelOrder[i] = level) - 1
        ELSE -1

\* _get_next_level that returns the level itself instead of its successor
get_next_level_same(current_level) ==
    LET current_index == LevelIndex(current_level)
    IN IF current_index >= 0 /\ current_index < Len(LevelOrder) - 1
           THEN LevelOrder[current_index + 1]
           ELSE NoLevel

\* ContentAIAgent._get_next_level (the second definition, the one in effect; the
\* first one is the same text)
_get_next_level(current_level) ==
    LET current_index == LevelIndex(current_level)
    IN IF current_index >= 0 /\ current_index < Len(LevelOrder) - 1
           THEN LevelOrder[current_index + 2]
           ELSE NoLevel

\* models_to_try
models_to_try == <<"gpt-4o-mini", "gpt-4o", "gpt-3.5-turbo">>

\* the cap on the number of hypotheses kept from a model answer
MaxHypotheses == 12

\* the size of the placeholder batch
PlaceholderCount == 10

\* one placeholder hypothesis: f"Гипотеза {i+1} для {level}" and its fixed fields
PlaceholderHypothesis(i, level) ==
    [name            |-> <<"Hypothesis", i, "for", level>>,
     description     |-> <<"Description of hypothesis", i>>,
     characteristics |-> <<"Characteristic 1", "Characteristic 2">>,
     potential       |-> "Potential of the hypothesis"]

\* the demo batch of the three fallback branches (the same list comprehension)
PlaceholderBatch(level) ==
    [i \in 1..PlaceholderCount |-> PlaceholderHypothesis(i, level)]

\* the i-th hypothesis object of a model answer
ModelHypothesis(i) ==
    [name            |-> <<"Answer", i, "of", "model">>,
     description     |-> <<"Description by the model", i>>,
     characteristics |-> <<"c1", "c2", "c3">>,
     potential       |-> "Potential by the model"]

ModelItems(n) == [i \in 1..n |-> ModelHypothesis(i)]

\* What one gateway call can do.  kind "raise": the call raises.  kind "text": it
\* returns text; wrapped says whether prose surrounds the JSON; shape is what the
\* text holds: "invalid" (no JSON), "array" (a bare array of n objects),
\* "object_hyp" (an object whose "hypotheses" is an array of n objects),
\* "object_null" (an object whose "hypotheses" is null), "object_other" (an
\* object without "hypotheses").
Reply(kind, wrapped, shape, n) ==
    [kind |-> kind, wrapped |-> wrapped, shape |-> shape, n |-> n]

\* the answer sizes of the model: empty, short, one more than the cap
AnswerSizes == {0, 2, MaxHypotheses + 1}

FailingReplies ==
    {Reply("raise", FALSE, "invalid", 0),
     Reply("text", FALSE, "invalid", 0),
     Reply("text", FALSE, "object_other", 0)}

ParsingReplies ==
    {Reply("text", FALSE, "object_hyp", n) : n \in AnswerSizes} \cup
    {Reply("text", TRUE, "array", 2),
     Reply("text", FALSE, "object_null", 0)}

Replies == FailingReplies \cup ParsingReplies

\* _parse_hypotheses(raw): [raised, is_none, items].  A text that does not start
\* with "{" or "[" is cut to its first {...} or [...] block, which is the JSON
\* document when there is one; json.loads raises on what is left otherwise.
_parse_hypotheses(reply) ==
    CASE reply.shape = "object_hyp" ->
            [raised |-> FALSE, is_none |-> FALSE, items |-> ModelItems(reply.n)]
      [] reply.shape = "array" ->
            [raised |-> FALSE, is_none |-> FALSE, items |-> ModelItems(reply.n)]
      [] reply.shape = "object_null" ->
            [raised |-> FALSE, is_none |-> TRUE, items |-> <<>>]
      [] OTHER ->
            [raised |-> TRUE, is_none |-> TRUE, items |-> <<>>]

\* one attempt: llm_client.chat.completions.create(...) and _parse_hypotheses
Attempt(reply) ==
    IF reply.kind = "raise"
        THEN [raised |-> TRUE, is_none |-> TRUE, items |-> <<>>]
        ELSE _parse_hypotheses(reply)

CallEntry(model, mode, raised) == [model |-> model, mode |-> mode, raised |-> raised]

\* The loop "for model in models_to_try" from model number m on, calls being the
\* gateway calls made so far: the set of [calls, parsed] it can end with, one for
\* every way the gateway can answer.  parsed is the value of parsed_hypotheses
\* after the loop.
RECURSIVE ModelLoop(_, _)

\* the loop without the break after a strict-JSON attempt that parsed: the
\* free-form attempt of the same model is made as well
ModelLoopNoBreak(m, calls) ==
    IF m > Len(models_to_try)
        THEN {[calls |-> calls,
               parsed |-> [raised |-> FALSE, is_none |-> TRUE, items |-> <<>>]]}
    ELSE UNION {
        LET strict == Attempt(r1)
            calls1 == Append(calls, CallEntry(models_to_try[m], "json", strict.raised))
        IN UNION {
               LET free == Attempt(r2)
                   calls2 == Append(calls1,
                                    CallEntry(models_to_try[m], "free", free.raised))
               IN IF ~free.raised
                      THEN {[calls |-> calls2, parsed |-> free]}
                      ELSE IF ~strict.raised
                          THEN {[calls |-> calls2, parsed |-> strict]}
                          ELSE ModelLoop(m + 1, calls2)
               : r2 \in Replies}
        : r1 \in Replies}

ModelLoop(m, calls) ==
    IF m > Len(models_to_try)
        THEN {[calls |-> calls,
               parsed |-> [raised |-> FALSE, is_none |-> TRUE, items |-> <<>>]]}
    ELSE UNION {
        LET strict == Attempt(r1)
            calls1 == Append(calls, CallEntry(models_to_try[m], "json", strict.raised))
        IN IF ~strict.raised
               THEN {[calls |-> calls1, parsed |-> strict]}             \* break
               ELSE UNION {
                   LET free == Attempt(r2)
                       calls2 == Append(calls1,
                                        CallEntry(models_to_try[m], "free", free.raised))
                   IN IF ~free.raised
                          THEN {[calls |-> calls2, parsed |-> free]}    \* break
                          ELSE ModelLoop(m + 1, calls2)                 \* continue
                   : r2 \in Replies}
        : r1 \in Replies}

\* the whole loop, from the first model on and with no call made yet
ModelChain == ModelLoop(1, <<>>)

\* deep_impact.get_hypothesis_generation_prompts(level).get("generate"): the
\* framework holds a generation prompt for each of its levels
HasGeneratePrompt(level) == level \in Levels

\* the list of hypotheses taken as the gateway returned it
TruncateNever(items) == items

\* hypotheses[:12] when there are more than 12
Truncate(items) ==
    IF Len(items) > MaxHypotheses THEN SubSeq(items, 1, MaxHypotheses) ELSE items

\* generate_hypotheses without the demo batch: "hypotheses" stays the empty list
\* it was initialised with
GenerateOutcomesNoFallback(level, client) ==
    IF client /\ HasGeneratePrompt(level)
        THEN {[calls |-> o.calls,
               parsed_ok |-> ~o.parsed.is_none,
               parsed_len |-> Len(o.parsed.items),
               hypotheses |-> IF o.parsed.is_none
                                  THEN <<>>
                                  ELSE Truncate(o.parsed.items)]
              : o \in ModelChain}
        ELSE {[calls |-> <<>>, parsed_ok |-> FALSE, parsed_len |-> 0,
               hypotheses |-> <<>>]}

\* The body of generate_hypotheses up to the value of its local "hypotheses":
\* the set of [calls, hypotheses, parsed_ok] it can end with.
GenerateOutcomes(level, client) ==
    IF client /\ HasGeneratePrompt(level)
        THEN {[calls |-> o.calls,
               parsed_ok |-> ~o.parsed.is_none,
               parsed_len |-> Len(o.parsed.items),
               hypotheses |-> IF o.parsed.is_none
                                  THEN PlaceholderBatch(level)   \* RuntimeError caught
                                  ELSE Truncate(o.parsed.items)]
              : o \in ModelChain}
        ELSE {[calls |-> <<>>, parsed_ok |-> FALSE, parsed_len |-> 0,
               hypotheses |-> PlaceholderBatch(level)]}

\* the LevelResult generate_hypotheses stores and returns
LevelResult(level, hyps) ==
    [stage |-> level, hypotheses |-> hyps, evaluation |-> <<>>, top_3 |-> <<>>,
     final_choice |-> None]

\* a store that keeps the result a level already has
StoreResultOnce(stored, level, results) ==
    IF level \in DOMAIN stored
        THEN stored
        ELSE (level :> results) @@ stored

\* self.deep_impact.hypotheses[level] = results
StoreResult(stored, level, results) ==
    (level :> results) @@ [l \in DOMAIN stored \ {level} |-> stored[l]]

\* the levels before a level, in order; none for a name that is no level
\* (level_order[:-1] of the source is not reached: no prompt exists for it)
LevelsBefore(level) ==
    IF level \in Levels THEN SubSeq(LevelOrder, 1, LevelIndex(level)) ELSE <<>>

\* "if prev_choice": a final choice that is neither None nor the empty text
Truthy(choice) == choice # None /\ choice # <<"">>

\* previous_levels: the lines "level: final choice" the prompt context gets, one
\* for every earlier level that is stored with a final choice; the context is
\* built only on the way to a gateway call
PreviousLevels(stored, level, client) ==
    IF client /\ HasGeneratePrompt(level)
        THEN LET HasChoice(e) == e \in DOMAIN stored /\ Truthy(stored[e].final_choice)
                 chosen == SelectSeq(LevelsBefore(level), HasChoice)
             IN [i \in DOMAIN chosen |->
                    [level |-> chosen[i], choice |-> stored[chosen[i]].final_choice]]
        ELSE <<>>

\* ContentAIAgent.generate_hypotheses(level, input_data, llm_client) with outcome o
\* of its gateway calls; input_data is not read
generate_hypotheses(level, input_data, client, o) ==
    /\ hypotheses' = StoreResult(hypotheses, level, LevelResult(level, o.hypotheses))
    /\ genCall' = [op |-> "generate_hypotheses",
                   level |-> level,
                   input_data |-> input_data,
                   previous_levels |-> PreviousLevels(hypotheses, level, client),
                   client |-> client,
                   calls |-> o.calls,
                   parsed_ok |-> o.parsed_ok,
                   parsed_len |-> o.parsed_len,
                   results |-> LevelResult(level, o.hypotheses),
                   next_level |-> _get_next_level(level)]

\* the longest run of calls of a caller that follows "next_level"
MaxWalk == 7

\* A caller generates the level at its cursor and moves the cursor to the
\* "next_level" of the result, until that is None.
GenerateNext ==
    /\ cursor # NoLevel
    /\ Len(visited) < MaxWalk
    /\ \E o \in GenerateOutcomes(cursor, llm_client) :
           generate_hypotheses(cursor, <<>>, llm_client, o)
    /\ cursor' = _get_next_level(cursor)
    /\ visited' = Append(visited, cursor)
    /\ UNCHANGED <<schedVars, pipeVars, llm_client, webVars>>

\* ------------------------------------------------------------------------
\* web_app.py: render_deep_impact, the tab of the hypothesis levels
\* ------------------------------------------------------------------------

\* the most generate_hypotheses calls of one session of the screen
MaxGenerations == 2

\* one entry of st.session_state.hypothesis_levels
LevelState(completed, selected, hyps) ==
    [completed |-> completed, selected |-> selected, hypotheses |-> hyps]

\* the first level that is not completed, levels_order[0] when all are
FirstIncomplete(levels) ==
    IF \E i \in DOMAIN LevelOrder : ~levels[LevelOrder[i]].completed
        THEN LevelOrder[CHOOSE i \in DOMAIN LevelOrder :
                            /\ ~levels[LevelOrder[i]].completed
                            /\ \A j \in 1..(i - 1) : levels[LevelOrder[j]].completed]
        ELSE LevelOrder[1]

\* the branch "completed" with a selected hypothesis: the buttons "change
\* selection" and "generate anew" are shown
ShowsSelected(st) == st.completed /\ st.selected # None

\* the branch "completed" without a selected hypothesis: "select a hypothesis"
ShowsCompletedEmpty(st) == st.completed /\ st.selected = None

\* the branch "elif not hypotheses": the button "generate hypotheses" is shown
ShowsGenerateButton(st) == ~st.completed /\ st.hypotheses = <<>>

\* the list of hypotheses shown although the level is completed
ShowsHypothesisListAlways(st) == st.hypotheses # <<>>

\* the branch "else": the list of hypotheses with "generate again", "select", "skip"
ShowsHypothesisList(st) == ~st.completed /\ st.hypotheses # <<>>

\* the gateway behaviours of the sessions of the screen: no gateway call, the
\* first call answers with 2 hypotheses, or all six calls raise
ScreenOutcomes(level, client) ==
    {o \in GenerateOutcomes(level, client) :
        \/ Len(o.calls) \in {0, 2 * Len(models_to_try)}
        \/ Len(o.calls) = 1 /\ Len(o.hypotheses) = 2}

\* the rows of the list the model clicks "select" on: the first and the last
SelectableRows(hyps) == {1, Len(hyps)}

\* the level buttons the sessions of the model click: the first level, its
\* successor and the last level
ClickedLevels == {"market", "niche", "task"}

\* context["previous_choices"]: the selected hypothesis of every earlier level
\* that has one, in the order of the levels
previous_choices(levels, current_level) ==
    LET IsSelected(e) == levels[e].selected # None
        chosen == SelectSeq(LevelsBefore(current_level), IsSelected)
    IN [i \in DOMAIN chosen |->
           [level |-> chosen[i], choice |-> levels[chosen[i]].selected]]

\* the level button of the progress row
ClickLevel(level) ==
    /\ selected_hypothesis_level' = level
    /\ UNCHANGED <<hypothesis_levels, genCount, schedVars, pipeVars, llm_client,
                 genVars>>

\* a "change selection" that reopens the level and keeps its selection
ChangeSelectionKeepsSelected ==
    LET current_level == selected_hypothesis_level
    IN /\ ShowsSelected(hypothesis_levels[current_level])
       /\ hypothesis_levels' =
              [hypothesis_levels EXCEPT ![current_level].completed = FALSE]
       /\ UNCHANGED <<selected_hypothesis_level, genCount, schedVars, pipeVars,
                      llm_client,
                      genVars>>

\* "change selection" on a completed level
ChangeSelection ==
    LET current_level == selected_hypothesis_level
    IN /\ ShowsSelected(hypothesis_levels[current_level])
       /\ hypothesis_levels' =
              [hypothesis_levels EXCEPT ![current_level].completed = FALSE,
                                        ![current_level].selected = None]
       /\ UNCHANGED <<selected_hypothesis_level, genCount, schedVars, pipeVars,
                      llm_client,
                      genVars>>

\* "generate anew" on a completed level
RegenerateCompleted ==
    LET current_level == selected_hypothesis_level
    IN /\ ShowsSelected(hypothesis_levels[current_level])
       /\ hypothesis_levels' =
              [hypothesis_levels EXCEPT ![current_level].hypotheses = <<>>,
                                        ![current_level].completed = FALSE,
                                        ![current_level].selected = None]
       /\ UNCHANGED <<selected_hypothesis_level, genCount, schedVars, pipeVars,
                      llm_client,
                      genVars>>

\* "select a hypothesis" on a level that was completed without a selection
ReopenLevel ==
    LET current_level == selected_hypothesis_level
    IN /\ ShowsCompletedEmpty(hypothesis_levels[current_level])
       /\ hypothesis_levels' =
              [hypothesis_levels EXCEPT ![current_level].completed = FALSE]
       /\ UNCHANGED <<selected_hypothesis_level, genCount, schedVars, pipeVars,
                      llm_client,
                      genVars>>

\* "generate hypotheses" on a level without hypotheses
GenerateFirst ==
    LET current_level == selected_hypothesis_level
    IN /\ ShowsGenerateButton(hypothesis_levels[current_level])
       /\ genCount < MaxGenerations
       /\ \E o \in ScreenOutcomes(current_level, llm_client) :
              /\ generate_hypotheses(current_level,
                                     previous_choices(hypothesis_levels, current_level),
                                     llm_client, o)
              /\ hypothesis_levels' =
                     [hypothesis_levels EXCEPT ![current_level].hypotheses =
                                                   o.hypotheses]
       /\ genCount' = genCount + 1
       /\ UNCHANGED <<selected_hypothesis_level, schedVars, pipeVars, llm_client, cursor,
                      visited>>

\* "generate again" above the list of hypotheses
GenerateAgain ==
    LET current_level == selected_hypothesis_level
    IN /\ ShowsHypothesisList(hypothesis_levels[current_level])
       /\ genCount < MaxGenerations
       /\ \E o \in ScreenOutcomes(current_level, llm_client) :
              /\ generate_hypotheses(current_level,
                                     previous_choices(hypothesis_levels, current_level),
                                     llm_client, o)
              /\ hypothesis_levels' =
                     [hypothesis_levels EXCEPT ![current_level] =
                                                   LevelState(FALSE, None, o.hypotheses)]
       /\ genCount' = genCount + 1
       /\ UNCHANGED <<selected_hypothesis_level, schedVars, pipeVars, llm_client, cursor,
                      visited>>

\* "select" on a row of the list
SelectHypothesis ==
    LET current_level == selected_hypothesis_level
        hyps == hypothesis_levels[current_level].hypotheses
    IN /\ ShowsHypothesisList(hypothesis_levels[current_level])
       /\ \E selected_index \in SelectableRows(hyps) :
              hypothesis_levels' =
                  [hypothesis_levels EXCEPT ![current_level].selected =
                                                <<hyps[selected_index]>>,
                                            ![current_level].completed = TRUE]
       /\ UNCHANGED <<selected_hypothesis_level, genCount, schedVars, pipeVars,
                      llm_client,
                      genVars>>

\* "skip this level"
SkipLevel ==
    LET current_level == selected_hypothesis_level
    IN /\ ShowsHypothesisList(hypothesis_levels[current_level])
       /\ hypothesis_levels' =
              [hypothesis_levels EXCEPT ![current_level].completed = TRUE]
       /\ UNCHANGED <<selected_hypothesis_level, genCount, schedVars, pipeVars,
                      llm_client,
                      genVars>>

\* ------------------------------------------------------------------------
\* main.py: ContentAIAgent, the pipeline from onboarding to the content batch
\* ------------------------------------------------------------------------

\* an optional text: None is <<>>, the text t is <<t>>
Text(t) == <<t>>

NoPipeCall ==
    [op |-> "none", raised |-> FALSE, error |-> "", cause |-> "",
     replies |-> <<>>, gateway_raised |-> FALSE, fallback |-> FALSE,
     count |-> 0, returned |-> <<>>, item_errors |-> {}]

\* the record of a call that returned
Returned(op, replies, gateway_raised, fallback) ==
    [NoPipeCall EXCEPT !.op = op, !.replies = replies,
                       !.gateway_raised = gateway_raised, !.fallback = fallback]

\* the record of a call that raised to its caller
Raised(op, replies, error, cause) ==
    [NoPipeCall EXCEPT !.op = op, !.replies = replies, !.raised = TRUE,
                       !.error = error, !.cause = cause]

\* what the text of a gateway answer looks like to the "{...}" extraction and to
\* json.loads: top is the JSON value the whole text is ("object", "array") or
\* "prose" when the text is not JSON; inner tells whether the text holds a
\* "{...}" span that is itself a JSON object
AnswerText(top, inner, keys, triggers) ==
    [top |-> top, inner |-> inner, keys |-> keys, triggers |-> triggers]

\* content.startswith("{"), re.search(r"(\{.*\})"), json.loads: the parsed
\* value, or raised when json.loads raises
ParseJson(text) ==
    IF text.top = "object"
        THEN [raised |-> FALSE, is_object |-> TRUE]
    ELSE IF text.inner
        THEN [raised |-> FALSE, is_object |-> TRUE]
    ELSE IF text.top = "array"
        THEN [raised |-> FALSE, is_object |-> FALSE]
    ELSE [raised |-> TRUE, is_object |-> FALSE]

\* the answers of the gateway to the expansion prompt
ExpansionAnswer(reply) ==
    CASE reply = "object" -> AnswerText("object", FALSE, "all", "list_str")
      [] reply = "object_trigger_objects" ->
             AnswerText("object", FALSE, "all", "list_obj")
      [] reply = "object_no_keys" -> AnswerText("object", FALSE, "none", "list_str")
      [] reply = "object_with_main_pain" ->
             AnswerText("object", FALSE, "all and main_pain", "list_str")
      [] reply = "wrapped_object" -> AnswerText("prose", TRUE, "all", "list_str")
      [] reply = "array" -> AnswerText("array", FALSE, "none", "list_str")
      [] reply = "prose" -> AnswerText("prose", FALSE, "none", "list_str")

ExpansionReplies ==
    {"raise", "prose", "object", "object_trigger_objects", "object_no_keys",
     "object_with_main_pain", "wrapped_object", "array"}

\* the six expansion fields, each by the shape of its value
Expansion(motivations, triggers, language_patterns, expectations, aspirations, fears) ==
    [motivations |-> motivations, triggers |-> triggers,
     language_patterns |-> language_patterns, expectations |-> expectations,
     aspirations |-> aspirations, fears |-> fears]

\* DeepImpactFramework.process_stage("expansion", input_data): the rule-based
\* expansion, with the field shape of the model answer
RuleBasedExpansion ==
    Expansion("dict", "list_str", "dict", "dict", "list_str", "dict")

\* the object of the model answer, with every key it holds; the .get defaults
\* where the keys are missing
ModelExpansion(text) ==
    IF text.keys = "all"
        THEN Expansion("dict", text.triggers, "dict", "dict", "list_str", "dict")
    ELSE IF text.keys = "all and main_pain"
        THEN Expansion("dict", text.triggers, "dict", "dict", "list_str", "dict")
             @@ [main_pain |-> Text("pain of the model")]
        ELSE Expansion("empty_dict", "empty_list", "empty_dict", "empty_dict",
                       "empty_dict", "empty_dict")

\* hypotheses.get(level, {}).get("final_choice", "")
FinalChoice(stored, level) ==
    IF level \in DOMAIN stored THEN stored[level].final_choice ELSE Text("")

\* the try block of expand_audience_insights and its fallbacks: expansion_results
ExpansionResults(client, reply) ==
    IF ~client
        THEN [gateway_raised |-> FALSE, fallback |-> TRUE, is_object |-> TRUE,
              value |-> RuleBasedExpansion]
    ELSE IF reply = "raise"
        THEN [gateway_raised |-> TRUE, fallback |-> TRUE, is_object |-> TRUE,
              value |-> RuleBasedExpansion]
    ELSE LET parsed == ParseJson(ExpansionAnswer(reply))
         IN IF parsed.raised
                THEN [gateway_raised |-> FALSE, fallback |-> TRUE,
                      is_object |-> TRUE, value |-> RuleBasedExpansion]
                ELSE [gateway_raised |-> FALSE, fallback |-> FALSE,
                      is_object |-> parsed.is_object,
                      value |-> ModelExpansion(ExpansionAnswer(reply))]

\* the dict expand_audience_insights builds: the named fields first, then
\* **expansion_results, whose keys replace the named ones
AudienceInsight(stored, expansion) ==
    expansion @@
    [main_pain |-> FinalChoice(stored, "pain"),
     main_task |-> FinalChoice(stored, "task"),
     target_segment |-> FinalChoice(stored, "segment"),
     motivations |-> expansion.motivations,
     triggers |-> expansion.triggers,
     language_patterns |-> expansion.language_patterns,
     expectations |-> expansion.expectations,
     aspirations |-> expansion.aspirations,
     fears |-> expansion.fears]

\* the replies the gateway gives when there is one
RepliesOf(client, replies) == IF client THEN replies ELSE {"no gateway"}

\* ProductIntelligence.analyze_product and create_product_profile
ProductProfile(client, reply) ==
    [name |-> "Product",
     value_proposition |->
         IF client /\ reply = "object" THEN "value proposition of the model" ELSE "",
     key_features |-> "list_str"]

AnalysisReplies == {"raise", "object"}

\* ContentAIAgent.start_onboarding
StartOnboarding ==
    /\ \E reply \in RepliesOf(llm_client, AnalysisReplies) :
           /\ product_profile' = <<ProductProfile(llm_client, reply)>>
           /\ pipeCall' = Returned("start_onboarding", <<reply>>,
                                   reply = "raise", reply # "object")
    /\ current_stage' = "deep_impact_audit"
    /\ UNCHANGED <<audience_insights, strategy, content_history, batches>>
    /\ UNCHANGED <<schedVars, llm_client, genVars, webVars>>

\* expand_audience_insights with a model answer that is no object:
\* expansion_results.get raises AttributeError outside the try block
ExpandRaises(reply) ==
    /\ pipeCall' = Raised("expand_audience_insights", <<reply>>,
                          "AttributeError", "shape")
    /\ UNCHANGED <<audience_insights, current_stage>>

ExpandStores(reply, r) ==
    /\ audience_insights' = <<AudienceInsight(hypotheses, r.value)>>
    /\ current_stage' = "strategy_generation"
    /\ pipeCall' = Returned("expand_audience_insights", <<reply>>,
                            r.gateway_raised, r.fallback)

\* ContentAIAgent.expand_audience_insights
ExpandAudienceInsights(reply) ==
    /\ LET r == ExpansionResults(llm_client, reply)
       IN IF r.is_object THEN ExpandStores(reply, r) ELSE ExpandRaises(reply)
    /\ UNCHANGED <<product_profile, strategy, content_history, batches>>
    /\ UNCHANGED <<schedVars, llm_client, genVars, webVars>>

\* ------------------------------------------------------------------------
\* modules/content_strategy.py: ContentStrategyGenerator
\* ------------------------------------------------------------------------

\* the static pillars of _generate_content_pillars
FallbackPillars ==
    <<"Solving the main pain", "Reaching goals and aspirations",
      "Overcoming fears and barriers", "Education and insights", "Social proof",
      "Transformation and results">>

\* how many named pillars each answer of the gateway holds
PillarCount(reply) ==
    CASE reply = "pillars" -> 4
      [] reply = "number pillars" -> 4
      [] reply = "one pillar" -> 1
      [] reply = "seven pillars" -> 7
      [] OTHER -> 0

\* names that are JSON numbers: truthy, and no strings
NumberPillars == <<"number 1", "number 2", "number 3", "number 4">>

\* the truthy names of the "pillars" list of a model answer, in its order
ModelPillars(reply) ==
    IF reply = "number pillars"
        THEN NumberPillars
        ELSE SubSeq(<<"Model pillar 1", "Model pillar 2", "Model pillar 3",
                      "Model pillar 4", "Model pillar 5", "Model pillar 6",
                      "Model pillar 7">>, 1, PillarCount(reply))

\* the answers of the gateway to the pillars prompt
PillarAnswer(reply) ==
    CASE reply = "array" -> AnswerText("array", FALSE, "none", "list_str")
      [] OTHER -> AnswerText("object", FALSE, "all", "list_str")

PillarReplies ==
    {"raise", "array", "pillars", "number pillars", "one pillar", "seven pillars",
     "no pillars"}

\* ', '.join(...) over the motivations and the aspirations, outside any try
PillarsPromptRaises(insight) ==
    insight.motivations = "list_obj" \/ insight.aspirations = "list_obj"

\* _generate_content_pillars past the prompt: data.get and p.get are inside the
\* try, so an answer that is no object ends in the static pillars too
_generate_content_pillars(client, reply) ==
    IF ~client \/ reply = "raise"
        THEN FallbackPillars
    ELSE LET parsed == ParseJson(PillarAnswer(reply))
             pillars == ModelPillars(reply)
         IN IF ~parsed.raised /\ parsed.is_object /\ pillars # <<>>
                THEN pillars
                ELSE FallbackPillars

\* what an f-string prints for an optional text
Format(t) == IF t = None THEN "None" ELSE t[1]

FunnelStages == <<"awareness", "interest", "consideration", "decision", "action">>

_create_content_funnel(insight) ==
    [stage \in Range(FunnelStages) |->
        CASE stage = "awareness" ->
                 <<<<"How to solve", Format(insight.main_pain)>>,
                   <<"Triggers that sharpen", Format(insight.main_pain)>>,
                   <<"Why the current solutions fail", "">>>>
          [] stage = "interest" ->
                 <<<<"How the product solves the problem", "">>,
                   <<"Cases of a solution", "">>, <<"Insights on the problem", "">>>>
          [] stage = "consideration" ->
                 <<<<"Comparison with alternatives", "">>,
                   <<"The solution in detail", "">>, <<"Answers to objections", "">>>>
          [] stage = "decision" ->
                 <<<<"Social proof", "">>, <<"Limited offer", "">>,
                   <<"Guarantees", "">>>>
          [] stage = "action" ->
                 <<<<"Call to action", "">>, <<"How to start", "">>,
                   <<"First steps", "">>>>]

\* one slot of the calendar; it has no "channel" key
PostPlan(date, pillar, funnel_stage) ==
    [date |-> date, pillar |-> pillar, funnel_stage |-> funnel_stage,
     topic |-> <<"calendar", pillar, funnel_stage>>]

\* a key of the year and the month, the months taken as 31 days long
WeekKeyByMonth(day) ==
    LET year == IF day < 366 THEN 2024 ELSE 2025
        yday == IF day < 366 THEN day ELSE day - 366
    IN <<year, yday \div 31>>

\* strftime("%Y-%W") of a day counted from Monday 2024-01-01: the year and the
\* number of the week that starts on a Monday, the days before the first
\* Monday of a year being week 0
WeekKey(day) ==
    LET year == IF day < 366 THEN 2024 ELSE 2025
        yday == IF day < 366 THEN day ELSE day - 366
    IN <<year, (yday + 7 - (day % 7)) \div 7>>

\* calendar[week_key] = []: a key already held keeps its place and is emptied
SetBucket(calendar, week_key) ==
    IF \E i \in 1..Len(calendar) : calendar[i].week = week_key
        THEN [i \in 1..Len(calendar) |->
                 IF calendar[i].week = week_key
                     THEN [calendar[i] EXCEPT !.posts = <<>>]
                     ELSE calendar[i]]
        ELSE Append(calendar, [week |-> week_key, posts |-> <<>>])

\* calendar[week_key].append(...)
AppendSlot(calendar, week_key, slot) ==
    [i \in 1..Len(calendar) |->
        IF calendar[i].week = week_key
            THEN [calendar[i] EXCEPT !.posts = Append(@, slot)]
            ELSE calendar[i]]

RECURSIVE CalendarDayLoopByDate(_, _, _, _, _)
\* the day loop with the pillar chosen by the date of the slot
CalendarDayLoopByDate(calendar, content_pillars, week_start, week, day) ==
    IF day >= 5
        THEN calendar
    ELSE CalendarDayLoopByDate(
             AppendSlot(calendar, WeekKey(week_start),
                        PostPlan(week_start + day,
                                 content_pillars[((week_start + day)
                                                     % Len(content_pillars)) + 1],
                                 FunnelStages[(week % Len(FunnelStages)) + 1])),
             content_pillars, week_start, week, day + 1)

RECURSIVE CalendarDayLoop(_, _, _, _, _)
\* for day in range(5): the pillar rotates by the day
CalendarDayLoop(calendar, content_pillars, week_start, week, day) ==
    IF day >= 5
        THEN calendar
    ELSE CalendarDayLoop(
             AppendSlot(calendar, WeekKey(week_start),
                        PostPlan(week_start + day,
                                 content_pillars[(day % Len(content_pillars)) + 1],
                                 FunnelStages[(week % Len(FunnelStages)) + 1])),
             content_pillars, week_start, week, day + 1)

RECURSIVE CalendarWeekLoop(_, _, _, _)
\* for week in range(4): the funnel stage rotates by the week
CalendarWeekLoop(calendar, content_pillars, current_date, week) ==
    IF week >= 4
        THEN calendar
    ELSE LET week_start == current_date + 7 * week
         IN CalendarWeekLoop(
                CalendarDayLoop(SetBucket(calendar, WeekKey(week_start)),
                                content_pillars, week_start, week, 0),
                content_pillars, current_date, week + 1)

\* _generate_content_calendar: the buckets in insertion order
_generate_content_calendar(content_pillars, current_date) ==
    CalendarWeekLoop(<<>>, content_pillars, current_date, 0)

\* the pillar answers drawn along the whole pipeline
PipePillarReplies == {"raise", "array", "pillars"}

\* the pillar answers behind the strategies whose batches are generated
BatchPillarReplies == PipePillarReplies \cup {"number pillars"}

\* datetime.now() of a synthesis, in days from Monday 2024-01-01: a Monday, a
\* Thursday and the last Monday of the year
CalendarDays == {0, 3, 364}

\* the answers of the gateway to the key-messages prompt
MessageReplies == {"raise", "messages"}

_generate_key_messages(client, reply, product, insight) ==
    IF client /\ reply = "messages"
        THEN <<<<"message of the model", "1">>, <<"message of the model", "2">>>>
        ELSE <<<<"value proposition", product.value_proposition>>,
               <<"We solve", Format(insight.main_pain)>>,
               <<"We help to reach", Format(insight.main_task)>>>>

\* _select_channels: the insight has no digital_footprint
_select_channels == <<"linkedin", "twitter">>

\* ContentStrategyGenerator.generate_strategy
generate_strategy(client, product, insight, pillars_reply, messages_reply, current_date) ==
    LET content_pillars == _generate_content_pillars(client, pillars_reply)
    IN [target_audience |-> insight,
        content_pillars |-> content_pillars,
        content_funnel |-> _create_content_funnel(insight),
        content_calendar |-> _generate_content_calendar(content_pillars,
                                                         current_date),
        tone_of_voice |-> "friendly_professional",
        key_messages |-> _generate_key_messages(client, messages_reply, product,
                                                 insight),
        channels |-> _select_channels,
        posting_schedule |-> [c \in Range(_select_channels) |-> OptimalTimes(c)]]

ProductError == "Product profile not set. Run start_onboarding first."

InsightsError == "Audience insights not set. Run expand_audience_insights first."

StrategyError == "Strategy not set. Run generate_content_strategy first."

\* one signal for both missing preconditions
StrategyPreconditionOneSignal(profile, insights) ==
    IF profile = None \/ insights = <<>> THEN ProductError ELSE ""

\* the two checks at the head of generate_content_strategy
StrategyPrecondition(profile, insights) ==
    IF profile = None THEN ProductError
    ELSE IF insights = <<>> THEN InsightsError
    ELSE ""

\* ContentAIAgent.generate_content_strategy
GenerateContentStrategy(pr, mr, current_date) ==
    /\ LET error == StrategyPrecondition(product_profile, audience_insights)
       IN IF error # ""
              THEN /\ pipeCall' = Raised("generate_content_strategy", <<>>, error,
                                         "precondition")
                   /\ UNCHANGED <<strategy, current_stage>>
          ELSE IF PillarsPromptRaises(audience_insights[1])
              THEN /\ pipeCall' = Raised("generate_content_strategy", <<>>,
                                         "TypeError", "shape")
                   /\ UNCHANGED <<strategy, current_stage>>
          ELSE     /\ strategy' = <<generate_strategy(llm_client, product_profile[1],
                                                      audience_insights[1], pr, mr,
                                                      current_date)>>
                   /\ current_stage' = "content_generation"
                   /\ pipeCall' = Returned("generate_content_strategy", <<pr, mr>>,
                                           pr = "raise" \/ mr = "raise",
                                           PillarCount(pr) = 0 \/ mr # "messages")
    /\ UNCHANGED <<product_profile, audience_insights, content_history, batches>>
    /\ UNCHANGED <<schedVars, llm_client, genVars, webVars>>

\* ------------------------------------------------------------------------
\* modules/content_agent.py: AIContentAgent
\* ------------------------------------------------------------------------

\* how the gateway behaves during one batch
GatewayModes == {"up", "down", "flaky", "short"}

\* the answer of the gateway to the k-th content prompt of a batch (k from 0)
ReplyAt(mode, k) ==
    CASE mode = "up" -> "text"
      [] mode = "down" -> "raise"
      [] mode = "flaky" -> IF k % 2 = 0 THEN "raise" ELSE "text"
      [] mode = "short" -> "short text"
      [] OTHER -> "no gateway"

\* _build_generation_prompt: language_patterns.get(...) needs a dict and
\* ', '.join(triggers[:3]) a list of strings
GenerationPromptRaises(insight) ==
    \/ insight.triggers \in {"list_obj", "dict"}
    \/ insight.language_patterns \notin {"dict", "empty_dict"}

\* _call_llm without its try block
call_llm_uncaught(client, reply) ==
    IF client
        THEN [raised |-> reply = "raise", gateway_raised |-> reply = "raise",
              text |-> reply]
        ELSE [raised |-> FALSE, gateway_raised |-> FALSE, text |-> "demo text"]

\* AIContentAgent._call_llm
_call_llm(client, reply) ==
    IF client
        THEN IF reply = "raise"
                 THEN [raised |-> FALSE, gateway_raised |-> TRUE,
                       text |-> "gateway error text"]
                 ELSE [raised |-> FALSE, gateway_raised |-> FALSE, text |-> reply]
        ELSE [raised |-> FALSE, gateway_raised |-> FALSE, text |-> "demo text"]

ContentPiece(id, topic, content, pillar, funnel_stage, channel, tone_of_voice) ==
    [id |-> id, topic |-> topic, content |-> content, pillar |-> pillar,
     funnel_stage |-> funnel_stage, channel |-> channel,
     tone_of_voice |-> tone_of_voice, status |-> "draft"]

\* AIContentAgent.generate_content; the piece is appended to content_history
\* by the caller of this operator when nothing raised
generate_content(id, topic, content_strategy, insight, channel, client, reply) ==
    IF GenerationPromptRaises(insight)
        THEN [raised |-> TRUE, error |-> "TypeError", cause |-> "shape",
              gateway_raised |-> FALSE, piece |-> None]
    ELSE LET generated_content == _call_llm(client, reply)
         IN IF generated_content.raised
                THEN [raised |-> TRUE, error |-> "gateway error", cause |-> "gateway",
                      gateway_raised |-> TRUE, piece |-> None]
                ELSE [raised |-> FALSE, error |-> "", cause |-> "",
                      gateway_raised |-> generated_content.gateway_raised,
                      piece |-> <<ContentPiece(id, topic, generated_content.text,
                                               content_strategy.pillar,
                                               content_strategy.funnel_stage,
                                               channel,
                                               content_strategy.tone_of_voice)>>]

\* ------------------------------------------------------------------------
\* main.py: ContentAIAgent.generate_content_batch
\* ------------------------------------------------------------------------

\* the state of one batch: the list built so far, the history of the content
\* agent, the exception that left the batch, the positions whose generation
\* raised, and whether a gateway call raised
BatchState(history) ==
    [generated_content |-> <<>>, history |-> history, raised |-> FALSE,
     error |-> "", cause |-> "", item_errors |-> {}, gateway_raised |-> FALSE]

\* the call of generate_content for the next position of the batch
NextItem(ctx, topic, pillar, funnel_stage, channel, st) ==
    generate_content(<<"content", ctx.batch, Len(st.generated_content) + 1>>,
                     topic,
                     [pillar |-> pillar, funnel_stage |-> funnel_stage,
                      tone_of_voice |-> ctx.strategy.tone_of_voice],
                     ctx.insight, channel, ctx.client,
                     ReplyAt(ctx.mode, Len(st.generated_content)))

\* a piece came back: generate_content has appended the object to the history
\* (the shortfall loop then edits that same object) and the batch appends it
Appended(st, g, content) ==
    [st EXCEPT !.generated_content = Append(@, content),
               !.history = Append(@, content),
               !.gateway_raised = @ \/ g.gateway_raised]

RECURSIVE CalendarPosts(_, _, _, _, _)
\* for post_plan in week_posts, without a try block
CalendarPosts(ctx, week_posts, j, count, st) ==
    IF j > Len(week_posts) \/ Len(st.generated_content) >= count
        THEN st
    ELSE LET post_plan == week_posts[j]
             g == NextItem(ctx, post_plan.topic, post_plan.pillar,
                           post_plan.funnel_stage, ctx.strategy.channels[1], st)
         IN IF g.raised
                THEN [st EXCEPT !.raised = TRUE, !.error = g.error,
                                !.cause = g.cause,
                                !.gateway_raised = @ \/ g.gateway_raised,
                                !.item_errors =
                                    @ \cup {Len(st.generated_content) + 1}]
                ELSE CalendarPosts(ctx, week_posts, j + 1, count,
                                   Appended(st, g, g.piece[1]))

RECURSIVE CalendarWeeks(_, _, _, _)
\* for week_key, week_posts in list(content_calendar.items())[:4]
CalendarWeeks(ctx, w, count, st) ==
    IF w > Min(Len(ctx.strategy.content_calendar), 4)
        THEN st
    ELSE LET week_posts == ctx.strategy.content_calendar[w].posts
         IN IF week_posts = <<>>
                THEN CalendarWeeks(ctx, w + 1, count, st)
                ELSE LET after == CalendarPosts(ctx, week_posts, 1, count, st)
                     IN IF after.raised \/ Len(after.generated_content) >= count
                            THEN after
                            ELSE CalendarWeeks(ctx, w + 1, count, after)

\* the topics "pillar - stage", pillar by pillar
PillarStageTopics(pillars, funnel_stages) ==
    [k \in 1..(Len(pillars) * Len(funnel_stages)) |->
        <<"pillar - stage", pillars[((k - 1) \div Len(funnel_stages)) + 1],
          funnel_stages[((k - 1) % Len(funnel_stages)) + 1]>>]

\* topics_list with the numbered topics appended when the pairs are too few;
\* len(topics_list) grows while they are appended
TopicsList(pillars, funnel_stages, posts_generated, count) ==
    LET pairs == PillarStageTopics(pillars, funnel_stages)
        missing == count - posts_generated - Len(pairs)
    IN IF missing > 0
           THEN pairs \o [i \in 1..missing |->
                             <<"post", ToString(posts_generated + Len(pairs)
                                                + 2 * (i - 1) + 1), "">>]
           ELSE pairs

\* the piece the except branch of the shortfall loop builds; it is not appended
\* to the history of the content agent
ErrorPiece(ctx, i, topic, pillar, funnel_stage, channel) ==
    ContentPiece(<<"content_error", ctx.batch, i + 1>>, topic, "error text", pillar,
                 funnel_stage, channel, ctx.strategy.tone_of_voice)

\* pillar.lower() in the text of a piece that came back empty or short
LowerRaises(pillar) == pillar \in Range(NumberPillars)

RECURSIVE ShortfallLoop(_, _, _, _, _)
\* for i in range(posts_generated, count), each item in its own try block
ShortfallLoop(ctx, posts_generated, i, count, st) ==
    IF i >= count
        THEN st
    ELSE LET pillars == ctx.strategy.content_pillars
             channels == ctx.strategy.channels
             topics_list == TopicsList(pillars, FunnelStages, posts_generated, count)
             k == i - posts_generated
             topic == topics_list[(k % Len(topics_list)) + 1]
             pillar == pillars[(k % Len(pillars)) + 1]
             funnel_stage == FunnelStages[(k % Len(FunnelStages)) + 1]
             channel == channels[(k % Len(channels)) + 1]
             g == NextItem(ctx, topic, pillar, funnel_stage, channel, st)
         IN IF g.raised
                THEN ShortfallLoop(ctx, posts_generated, i + 1, count,
                         [st EXCEPT !.generated_content =
                                        Append(@, ErrorPiece(ctx, i, topic, pillar,
                                                             funnel_stage, channel)),
                                    !.gateway_raised = @ \/ g.gateway_raised,
                                    !.item_errors = @ \cup {i + 1}])
            ELSE IF g.piece[1].content = "short text" /\ LowerRaises(pillar)
                THEN ShortfallLoop(ctx, posts_generated, i + 1, count,
                         [st EXCEPT !.generated_content =
                                        Append(@, ErrorPiece(ctx, i, topic, pillar,
                                                             funnel_stage, channel)),
                                    !.history = Append(@, g.piece[1]),
                                    !.gateway_raised = @ \/ g.gateway_raised,
                                    !.item_errors = @ \cup {i + 1}])
                ELSE ShortfallLoop(ctx, posts_generated, i + 1, count,
                         Appended(st, g,
                             IF g.piece[1].content = "short text"
                                 THEN [g.piece[1] EXCEPT !.content = "basic text"]
                                 ELSE g.piece[1]))

\* generate_content_batch past its precondition
generate_content_batch(ctx, count, history) ==
    LET calendar == CalendarWeeks(ctx, 1, count, BatchState(history))
    IN IF calendar.raised \/ Len(calendar.generated_content) >= count
           THEN calendar
           ELSE ShortfallLoop(ctx, Len(calendar.generated_content),
                              Len(calendar.generated_content), count, calendar)

\* ContentAIAgent.generate_content_batch
GenerateContentBatch(count, mode) ==
    /\ IF strategy = None
           THEN /\ pipeCall' = [Raised("generate_content_batch", <<>>, StrategyError,
                                       "precondition") EXCEPT !.count = count]
                /\ UNCHANGED <<content_history, batches>>
           ELSE LET ctx == [strategy |-> strategy[1], insight |-> audience_insights[1],
                            client |-> llm_client, mode |-> mode,
                            batch |-> batches + 1]
                    b == generate_content_batch(ctx, count, content_history)
                IN /\ content_history' = b.history
                   /\ batches' = batches + 1
                   /\ pipeCall' =
                          [op |-> "generate_content_batch", raised |-> b.raised,
                           error |-> b.error, cause |-> b.cause,
                           replies |-> <<mode>>,
                           gateway_raised |-> b.gateway_raised,
                           fallback |-> b.gateway_raised, count |-> count,
                           returned |-> IF b.raised THEN <<>>
                                        ELSE SubSeq(b.generated_content, 1, count),
                           item_errors |-> b.item_errors]
    /\ UNCHANGED <<product_profile, audience_insights, strategy, current_stage>>
    /\ UNCHANGED <<schedVars, llm_client, genVars, webVars>>

\* the levels whose final choice expand_audience_insights reads and the
\* pipeline generates
PipeLevels == {"pain"}

\* the gateway behaviours of those calls: no gateway, or all six attempts fail
PipeOutcomes(level, client) ==
    {o \in GenerateOutcomes(level, client) :
        /\ Len(o.calls) \in {0, 2 * Len(models_to_try)}
        /\ \A i \in DOMAIN o.calls : o.calls[i].raised}

\* generate_hypotheses called between the other steps of the pipeline
GenerateLevel(level) ==
    /\ \E o \in PipeOutcomes(level, llm_client) :
           /\ generate_hypotheses(level, <<>>, llm_client, o)
           /\ pipeCall' = Returned("generate_hypotheses", <<>>,
                                   \E i \in DOMAIN o.calls : o.calls[i].raised,
                                   ~o.parsed_ok)
    /\ UNCHANGED <<product_profile, audience_insights, strategy, current_stage,
                   content_history, batches>>
    /\ UNCHANGED <<schedVars, llm_client, cursor, visited, webVars>>

\* the most batches of one run of the pipeline
MaxBatches == 2

\* the slots of a calendar: 4 weeks of 5
CalendarSlots == 20

\* the largest count asked of generate_content_batch
MaxCount == 22

BatchCounts == {1, 7, CalendarSlots, MaxCount}

\* the most batches of a run that also takes the steps before the batch
MaxPipeBatches == 1

\* the counts and the gateway behaviours of those batches
PipeCounts == {2}

PipeModes == {"up", "down"}

\* ------------------------------------------------------------------------
\* modules/scheduler.py: the posts of the schedule
\* ------------------------------------------------------------------------

\* list.sort(key=lambda x: x.scheduled_time): a stable sort, so a post goes
\* behind the posts before it in the list that are not later than it
RECURSIVE SortByTime(_)
SortByTime(posts) ==
    IF posts = <<>> THEN <<>>
    ELSE
        LET front == SortByTime(SubSeq(posts, 1, Len(posts) - 1))
            last == posts[Len(posts)]
            k == Cardinality({i \in DOMAIN front :
                                 front[i].scheduled_time <= last.scheduled_time})
        IN SubSeq(front, 1, k) \o <<last>> \o SubSeq(front, k + 1, Len(front))

\* ContentScheduler.add_to_schedule: the schedule it leaves
add_to_schedule(held, content, scheduled_time, channel) ==
    LET posts == IF channel \in DOMAIN held THEN held[channel] ELSE <<>>
        others == [c \in DOMAIN held \ {channel} |-> held[c]]
    IN (channel :> SortByTime(Append(posts,
                                     ScheduledPost(content, scheduled_time, channel))))
           @@ others

\* the key order of self.schedule after "if channel not in self.schedule"
KeysWith(keys, channel) ==
    IF channel \in Range(keys) THEN keys ELSE Append(keys, channel)

\* "for channel_posts in self.schedule.values(): for post in channel_posts: if
\* post.id == post_id": the first post with the id, as <<channel, position>>,
\* or <<>> when no post has it
FindPost(held, keys, post_id) ==
    LET Hits(c) == {i \in DOMAIN held[c] : held[c][i].id = post_id}
        places == {k \in DOMAIN keys : Hits(keys[k]) # {}}
    IN IF places = {} THEN <<>>
       ELSE LET k == CHOOSE k \in places : \A j \in places : k <= j
                c == keys[k]
            IN <<c, CHOOSE i \in Hits(c) : \A j \in Hits(c) : i <= j>>

\* a mark_as_published that marks the post and leaves its content piece alone
MarkPieceNever(history, content) == history

\* post.content.status = ContentStatus.PUBLISHED
MarkPiece(history, content) ==
    [i \in DOMAIN history |->
        IF i = content THEN [history[i] EXCEPT !.status = "published"]
                       ELSE history[i]]

\* ContentScheduler.mark_as_published: [found, schedule, history]
mark_as_published(held, keys, history, post_id, time) ==
    LET at == FindPost(held, keys, post_id)
    IN IF at = <<>>
           THEN [found |-> FALSE, schedule |-> held, history |-> history]
           ELSE [found |-> TRUE,
                 schedule |-> [held EXCEPT ![at[1]][at[2]].published = TRUE,
                                           ![at[1]][at[2]].published_at = <<time>>],
                 history |-> MarkPiece(history, held[at[1]][at[2]].content)]

\* ContentScheduler.update_post_status: [found, schedule]
update_post_status(held, keys, post_id, status) ==
    LET at == FindPost(held, keys, post_id)
    IN IF at = <<>>
           THEN [found |-> FALSE, schedule |-> held]
           ELSE [found |-> TRUE,
                 schedule |-> [held EXCEPT ![at[1]][at[2]].status = status]]

\* Python's None, where the value is otherwise a channel name
NoChannel == "None"

\* "[channel] if channel else self.schedule.keys()"
ChannelsToCheck(keys, channel) ==
    IF channel \notin {NoChannel, ""} THEN <<channel>> ELSE keys

\* the test of get_upcoming_posts without the status of the post
IsUpcomingAnyStatus(post, cutoff_date) ==
    post.scheduled_time <= cutoff_date /\ ~post.published

\* the test of get_upcoming_posts on one post
IsUpcoming(post, cutoff_date) ==
    /\ post.scheduled_time <= cutoff_date
    /\ ~post.published
    /\ post.status = "active"

\* the loop "for ch in channels_to_check" from channel number i on
RECURSIVE UpcomingLoop(_, _, _, _)
UpcomingLoop(held, channels_to_check, cutoff_date, i) ==
    IF i > Len(channels_to_check) THEN <<>>
    ELSE
        LET ch == channels_to_check[i]
            Test(post) == IsUpcoming(post, cutoff_date)
            found == IF ch \in DOMAIN held THEN SelectSeq(held[ch], Test) ELSE <<>>
        IN found \o UpcomingLoop(held, channels_to_check, cutoff_date, i + 1)

\* timedelta(days=days), in minutes
Days(days) == days * 1440

\* ContentScheduler.get_upcoming_posts: the list it returns
get_upcoming_posts(held, keys, channel, days, time) ==
    SortByTime(UpcomingLoop(held, ChannelsToCheck(keys, channel),
                            time + Days(days), 1))

\* ------------------------------------------------------------------------
\* modules/analytics.py
\* ------------------------------------------------------------------------

RECURSIVE GCD(_, _)
GCD(a, b) == IF b = 0 THEN a ELSE GCD(b, a % b)

\* a float that is the quotient of two integers, as the fraction in lowest terms
Rate(n, d) == LET g == GCD(n, d) IN <<n \div g, d \div g>>

\* the float 0.0
ZeroRate == <<0, 1>>

\* ContentMetrics(content_id=...): every count 0 and engagement_rate 0.0
ContentMetrics(content_id) ==
    [content_id |-> content_id, views |-> 0, likes |-> 0, comments |-> 0,
     shares |-> 0, clicks |-> 0, engagement_rate |-> ZeroRate, reach |-> 0,
     impressions |-> 0]

\* ContentMetrics.calculate_engagement_rate
calculate_engagement_rate(m) ==
    IF m.impressions > 0
        THEN [m EXCEPT !.engagement_rate =
                           Rate((m.likes + m.comments + m.shares) * 100, m.impressions)]
        ELSE m

\* a get that adds the value of the update to the value held
GetAdded(metrics_data, key, default) ==
    IF key \in DOMAIN metrics_data THEN default + metrics_data[key] ELSE default

\* metrics_data.get(key, default)
Get(metrics_data, key, default) ==
    IF key \in DOMAIN metrics_data THEN metrics_data[key] ELSE default

\* SimpleAnalytics.track_content on the piece at place content of the history:
\* [metrics, history, returned]
track_content(mets, history, content, metrics_data) ==
    LET id == history[content].id
        m0 == IF id \in DOMAIN mets THEN mets[id] ELSE ContentMetrics(id)
        m1 == [m0 EXCEPT !.views = Get(metrics_data, "views", m0.views),
                         !.likes = Get(metrics_data, "likes", m0.likes),
                         !.comments = Get(metrics_data, "comments", m0.comments),
                         !.shares = Get(metrics_data, "shares", m0.shares),
                         !.clicks = Get(metrics_data, "clicks", m0.clicks),
                         !.reach = Get(metrics_data, "reach", m0.reach),
                         !.impressions = Get(metrics_data, "impressions",
                                             m0.impressions)]
        m2 == calculate_engagement_rate(m1)
        own == IF history[content].metrics = None
                   THEN <<>> ELSE history[content].metrics[1]
        updated == [k \in DOMAIN metrics_data \cup DOMAIN own |->
                       IF k \in DOMAIN metrics_data THEN metrics_data[k] ELSE own[k]]
    IN [metrics |-> [i \in DOMAIN mets \cup {id} |-> IF i = id THEN m2 ELSE mets[i]],
        history |-> [history EXCEPT ![content].metrics = <<updated>>],
        returned |-> m2]

\* self.metrics.get(c.id, ContentMetrics(c.id))
MetricsOf(mets, id) == IF id \in DOMAIN mets THEN mets[id] ELSE ContentMetrics(id)

\* metrics.likes + metrics.comments + metrics.shares
Engagement(m) == m.likes + m.comments + m.shares

\* sum(...) of a list of integers
RECURSIVE SumOf(_)
SumOf(numbers) ==
    IF numbers = <<>> THEN 0
    ELSE numbers[1] + SumOf(SubSeq(numbers, 2, Len(numbers)))

\* sum(...) of a list of rates
RECURSIVE RateSum(_)
RateSum(rates) ==
    IF rates = <<>> THEN ZeroRate
    ELSE LET rest == RateSum(SubSeq(rates, 2, Len(rates)))
         IN Rate(rates[1][1] * rest[2] + rest[1] * rates[1][2], rates[1][2] * rest[2])

\* "sum(rates) / len(rates) if rates else 0.0" over the rates above 0
MeanPositiveRate(mets, pieces) ==
    LET all == [i \in DOMAIN pieces |-> MetricsOf(mets, pieces[i].id).engagement_rate]
        Positive(rate) == rate[1] > 0
        rates == SelectSeq(all, Positive)
        total == RateSum(rates)
    IN IF rates = <<>> THEN ZeroRate ELSE Rate(total[1], total[2] * Len(rates))

\* "c.published_at if c.published_at else c.created_at" within the period
InPeriod(piece, start_date, end_date) ==
    LET date_to_check ==
            IF piece.published_at # None THEN piece.published_at[1]
                                         ELSE piece.created_at
    IN start_date <= date_to_check /\ date_to_check <= end_date

\* the pieces of a list whose field has the value given
Members(pieces, field, value) ==
    LET Has(c) == c[field] = value IN SelectSeq(pieces, Has)

\* the keys of a grouping: the values of the field over the pieces
GroupKeys(pieces, field) == {pieces[i][field] : i \in DOMAIN pieces}

\* channel_performance: posts, views, engagement and the mean rate of each channel
ChannelPerformance(mets, period_content) ==
    [channel \in GroupKeys(period_content, "channel") |->
        LET channel_posts == Members(period_content, "channel", channel)
        IN [posts |-> Len(channel_posts),
            views |-> SumOf([i \in DOMAIN channel_posts |->
                                MetricsOf(mets, channel_posts[i].id).views]),
            engagement |-> SumOf([i \in DOMAIN channel_posts |->
                                     Engagement(MetricsOf(mets, channel_posts[i].id))]),
            avg_engagement_rate |-> MeanPositiveRate(mets, channel_posts)]]

\* pillar_performance and funnel_performance: the posts of each group, and the
\* avg_engagement_rate 0.0 the group is created with
GroupPerformance(period_content, field) ==
    [value \in GroupKeys(period_content, field) |->
        [posts |-> Len(Members(period_content, field, value)),
         avg_engagement_rate |-> ZeroRate]]

\* content_with_metrics.sort(key=total_engagement, reverse=True): stable, the
\* items of equal engagement stay in their order
RECURSIVE SortByEngagement(_)
SortByEngagement(items) ==
    IF items = <<>> THEN <<>>
    ELSE
        LET front == SortByEngagement(SubSeq(items, 1, Len(items) - 1))
            last == items[Len(items)]
            k == Cardinality({i \in DOMAIN front :
                                 front[i].engagement >= last.engagement})
        IN SubSeq(front, 1, k) \o <<last>> \o SubSeq(front, k + 1, Len(front))

\* top_performing_content: the first 5 of the pieces by engagement
TopPerforming(mets, period_content) ==
    LET items == [i \in DOMAIN period_content |->
                     LET m == MetricsOf(mets, period_content[i].id)
                     IN [content_id |-> period_content[i].id,
                         engagement |-> Engagement(m),
                         engagement_rate |-> m.engagement_rate]]
        sorted == SortByEngagement(items)
    IN SubSeq(sorted, 1, Min(5, Len(sorted)))

\* SimpleAnalytics.generate_report: the AnalyticsReport it returns
generate_report(mets, start_date, end_date, content_list) ==
    LET Within(c) == InPeriod(c, start_date, end_date)
        period_content == SelectSeq(content_list, Within)
    IN [period_start |-> start_date,
        period_end |-> end_date,
        total_posts |-> Len(period_content),
        total_views |-> SumOf([i \in DOMAIN period_content |->
                                  MetricsOf(mets, period_content[i].id).views]),
        total_engagement |->
            SumOf([i \in DOMAIN period_content |->
                      Engagement(MetricsOf(mets, period_content[i].id))]),
        avg_engagement_rate |-> MeanPositiveRate(mets, period_content),
        top_performing_content |-> TopPerforming(mets, period_content),
        channel_performance |-> ChannelPerformance(mets, period_content),
        pillar_performance |-> GroupPerformance(period_content, "pillar"),
        funnel_stage_performance |-> GroupPerformance(period_content, "funnel_stage")]

\* ------------------------------------------------------------------------
\* main.py: approval, scheduling and the report
\* ------------------------------------------------------------------------

\* a ContentPiece of the history with the fields the scheduler, the analytics
\* and the report read and write
HistoryPiece(id, channel, pillar, funnel_stage, created_at) ==
    [id |-> id, channel |-> channel, pillar |-> pillar, funnel_stage |-> funnel_stage,
     status |-> "draft", created_at |-> created_at, published_at |-> None,
     metrics |-> None]

\* None, where the value is otherwise a place in the history
NoPiece == 0

\* AIContentAgent.get_content_by_id: the place of the first piece with the id
get_content_by_id(history, content_id) ==
    LET hits == {i \in DOMAIN history : history[i].id = content_id}
    IN IF hits = {} THEN NoPiece ELSE CHOOSE i \in hits : \A j \in hits : i <= j

\* content_to_schedule: the pieces found for content_ids, in the order of the ids
ContentToSchedule(history, content_ids) ==
    LET found == [k \in DOMAIN content_ids |->
                     get_content_by_id(history, content_ids[k])]
        IsPiece(r) == r # NoPiece
    IN SelectSeq(found, IsPiece)

\* content.status = ContentStatus.APPROVED on every piece found
Approved(history, content_to_schedule) ==
    [i \in DOMAIN history |->
        IF i \in Range(content_to_schedule)
            THEN [history[i] EXCEPT !.status = "approved"]
            ELSE history[i]]

\* ContentAIAgent.approve_and_schedule_content
ApproveAndScheduleContent(content_ids, start_date, channels) ==
    LET content_to_schedule == ContentToSchedule(content_history, content_ids)
    IN /\ content_history' = Approved(content_history, content_to_schedule)
       /\ schedule' = StoreSchedule(schedule,
                                    create_schedule(content_to_schedule, start_date,
                                                    channels, 5))
       /\ schedule_keys' = KeyOrder(channels)
       /\ current_stage' = "scheduled"
       /\ schedCall' = [op |-> "approve_and_schedule_content",
                        content_ids |-> content_ids,
                        content_pieces |-> content_to_schedule,
                        start_date |-> start_date,
                        channels |-> channels,
                        posts_per_week |-> 5]
       /\ UNCHANGED <<metrics, now, llm_client, genVars, webVars, product_profile,
                      audience_insights, strategy, batches, pipeCall>>

\* ContentScheduler.mark_as_published(post_id)
MarkAsPublished(post_id) ==
    LET r == mark_as_published(schedule, schedule_keys, content_history, post_id, now)
    IN /\ schedule' = r.schedule
       /\ content_history' = r.history
       /\ schedCall' = [op |-> "mark_as_published", post_id |-> post_id,
                        returned |-> r.found]
       /\ UNCHANGED <<schedule_keys, metrics, now, llm_client, genVars, webVars,
                      product_profile, audience_insights, strategy, current_stage,
                      batches, pipeCall>>

\* ContentScheduler.update_post_status(post_id, status)
UpdatePostStatus(post_id, status) ==
    LET r == update_post_status(schedule, schedule_keys, post_id, status)
    IN /\ schedule' = r.schedule
       /\ schedCall' = [op |-> "update_post_status", post_id |-> post_id,
                        status |-> status, returned |-> r.found]
       /\ UNCHANGED <<schedule_keys, metrics, now, llm_client, genVars, webVars,
                      pipeVars>>

\* the number of posts of a schedule
RECURSIVE ScheduledCount(_, _)
ScheduledCount(held, keys) ==
    IF keys = <<>> THEN 0
    ELSE Len(held[keys[1]]) + ScheduledCount(held, SubSeq(keys, 2, Len(keys)))

\* ContentScheduler.add_to_schedule(content, scheduled_time, channel)
AddToSchedule(content, scheduled_time, channel) ==
    /\ schedule' = add_to_schedule(schedule, content, scheduled_time, channel)
    /\ schedule_keys' = KeysWith(schedule_keys, channel)
    /\ schedCall' = [op |-> "add_to_schedule", content |-> content,
                     scheduled_time |-> scheduled_time, channel |-> channel,
                     returned |-> ScheduledPost(content, scheduled_time, channel)]
    /\ UNCHANGED <<metrics, now, llm_client, genVars, webVars, pipeVars>>

\* ContentScheduler.get_upcoming_posts(channel, days)
GetUpcomingPosts(channel, days) ==
    /\ schedCall' = [op |-> "get_upcoming_posts", channel |-> channel,
                     days |-> days, time |-> now,
                     returned |-> get_upcoming_posts(schedule, schedule_keys,
                                                     channel, days, now)]
    /\ UNCHANGED <<schedule, schedule_keys, metrics, now, llm_client, genVars,
                   webVars, pipeVars>>

\* the demo metrics of get_analytics_report: the least and the greatest values
\* random.randint can draw
DemoDraws ==
    {[views |-> 50, likes |-> 5, comments |-> 0, shares |-> 0, impressions |-> 100,
      reach |-> 80],
     [views |-> 500, likes |-> 50, comments |-> 10, shares |-> 5,
      impressions |-> 1000, reach |-> 800]}

\* "if not content.published_at and content.created_at": a datetime is truthy
CountsAsPublished(piece, start_date, end_date) ==
    /\ piece.published_at = None
    /\ start_date <= piece.created_at
    /\ piece.created_at <= end_date

\* the loop "for content in content_to_analyze" of get_analytics_report from
\* piece number i on; st = [metrics, history], demo[i] the draw for piece i
RECURSIVE ReportLoop(_, _, _, _, _)
ReportLoop(st, i, start_date, end_date, demo) ==
    IF i > Len(st.history) THEN st
    ELSE
        LET tracked ==
                IF st.history[i].id \notin DOMAIN st.metrics
                    THEN LET r == track_content(st.metrics, st.history, i, demo[i])
                         IN [metrics |-> r.metrics, history |-> r.history]
                    ELSE st
            piece == tracked.history[i]
            counted ==
                IF CountsAsPublished(piece, start_date, end_date)
                    THEN [tracked EXCEPT
                              !.history[i].published_at = <<piece.created_at>>,
                              !.history[i].status = "published"]
                    ELSE tracked
        IN ReportLoop(counted, i + 1, start_date, end_date, demo)

\* ContentAIAgent.get_analytics_report(days) on the history of the agent
GetAnalyticsReport(days, demo) ==
    LET end_date == now
        start_date == end_date - Days(days)
        st == ReportLoop([metrics |-> metrics, history |-> content_history], 1,
                         start_date, end_date, demo)
    IN /\ metrics' = st.metrics
       /\ content_history' = st.history
       /\ schedCall' = [op |-> "get_analytics_report", days |-> days,
                        report |-> generate_report(st.metrics, start_date, end_date,
                                                   st.history)]
       /\ UNCHANGED <<schedule, schedule_keys, now, llm_client, genVars, webVars,
                      product_profile, audience_insights, strategy, current_stage,
                      batches, pipeCall>>

\* SimpleAnalytics.track_content(content, metrics_data)
TrackContent(content, metrics_data) ==
    LET r == track_content(metrics, content_history, content, metrics_data)
    IN /\ metrics' = r.metrics
       /\ content_history' = r.history
       /\ schedCall' = [op |-> "track_content", content |-> content,
                        metrics_data |-> metrics_data, returned |-> r.returned]
       /\ UNCHANGED <<schedule, schedule_keys, now, llm_client, genVars, webVars,
                      product_profile, audience_insights, strategy, current_stage,
                      batches, pipeCall>>

\* the latest day the clock of the model reaches
MaxNowDay == 1

\* a day passes
Tick ==
    /\ now < Days(MaxNowDay)
    /\ now' = now + Days(1)
    /\ UNCHANGED <<schedule, schedule_keys, schedCall, metrics, llm_client, genVars,
                   webVars, pipeVars>>

\* the history of an agent that has generated two pieces at the epoch
GeneratedHistory ==
    <<HistoryPiece("c1", "linkedin", "Education", "awareness", 0),
      HistoryPiece("c2", "twitter", "Education", "interest", 0)>>

\* the lists of content ids handed to approve_and_schedule_content: both
\* pieces, and an unknown id before a piece
ApprovedIds == {<<"c1", "c2">>, <<"unknown", "c2">>}

\* the channel lists handed to approve_and_schedule_content
ApprovedChannels == {<<"linkedin">>, <<"linkedin", "twitter">>}

\* the start date handed to approve_and_schedule_content: the epoch
ApprovedStartDays == {0}

\* the ids of the posts of a schedule
PostIds(held) == UNION {{held[c][k].id : k \in DOMAIN held[c]} : c \in DOMAIN held}

\* the id of no post
MissingPost == <<"linkedin", -1>>

\* the post ids the calls of the model name: the first post of every channel
\* and the id of no post
NamedPosts(held) ==
    {held[c][1].id : c \in {d \in DOMAIN held : held[d] # <<>>}} \cup {MissingPost}

\* the arguments of add_to_schedule: the first piece at the time of the first
\* linkedin post of a schedule that starts at the epoch, and the second piece on
\* an unknown channel at midnight of the day after
AddedPosts ==
    {[content |-> 1, scheduled_time |-> DateTime(0, 9, 0), channel |-> "linkedin"],
     [content |-> 2, scheduled_time |-> DateTime(1, 0, 0), channel |-> "email"]}

\* the most posts a schedule holds after a call of add_to_schedule
MaxScheduled == 3

\* the channel and days arguments of get_upcoming_posts
UpcomingChannels == {NoChannel, "linkedin"}

UpcomingDays == {0, 1}

\* the days argument of get_analytics_report
ReportDays == {0, 30}

\* the metrics_data handed to track_content
TrackedData ==
    {[likes |-> 3, impressions |-> 10],
     [impressions |-> 0],
     [likes |-> 5, comments |-> 1],
     [views |-> 7, shares |-> 2, impressions |-> 20]}

\* ------------------------------------------------------------------------
\* Specifications
\* ------------------------------------------------------------------------

NoSchedCall ==
    [op |-> "none", content_pieces |-> <<>>, start_date |-> 0, channels |-> <<>>,
     posts_per_week |-> 0, repeat |-> FALSE]

NoGenCall ==
    [op |-> "none", level |-> NoLevel, input_data |-> <<>>,
     previous_levels |-> <<>>, client |-> FALSE, calls |-> <<>>,
     parsed_ok |-> FALSE, parsed_len |-> 0, results |-> LevelResult(NoLevel, <<>>),
     next_level |-> NoLevel]

\* ContentScheduler.__init__
InitScheduler ==
    /\ schedule = <<>>
    /\ schedule_keys = <<>>
    /\ schedCall = NoSchedCall

\* SimpleAnalytics.__init__, and the clock at the epoch
InitAnalytics ==
    /\ metrics = <<>>
    /\ now = 0

\* ContentAIAgent.__init__ and DeepImpactFramework(): no level generated
InitEngine ==
    /\ hypotheses = <<>>
    /\ genCall = NoGenCall
    /\ visited = <<>>

\* the session state render_deep_impact sets up on its first run
InitScreen ==
    /\ hypothesis_levels = [l \in Levels |-> LevelState(FALSE, None, <<>>)]
    /\ selected_hypothesis_level = FirstIncomplete(hypothesis_levels)
    /\ genCount = 0

\* ContentAIAgent.__init__: the state of the pipeline
InitPipeline ==
    /\ product_profile = None
    /\ audience_insights = <<>>
    /\ strategy = None
    /\ current_stage = "onboarding"
    /\ content_history = <<>>
    /\ batches = 0
    /\ pipeCall = NoPipeCall

\* the scheduler alone
InitSched ==
    /\ InitScheduler
    /\ InitAnalytics
    /\ InitEngine
    /\ InitScreen
    /\ InitPipeline
    /\ llm_client = FALSE
    /\ cursor = NoLevel

NextScheduler ==
    CreateSchedule /\ UNCHANGED <<llm_client, genVars, webVars, pipeVars>>

SpecScheduler == InitSched /\ [][NextScheduler]_vars

\* the stage engine, driven by a caller that starts at any level name
InitGen ==
    /\ InitScheduler
    /\ InitAnalytics
    /\ InitEngine
    /\ InitScreen
    /\ InitPipeline
    /\ llm_client \in BOOLEAN
    /\ cursor \in Levels \cup UnknownLevels

NextGen == GenerateNext

SpecGen == InitGen /\ [][NextGen]_vars

\* the screen of the hypothesis levels, with or without a gateway
InitWeb ==
    /\ InitScheduler
    /\ InitAnalytics
    /\ InitEngine
    /\ InitScreen
    /\ InitPipeline
    /\ llm_client \in BOOLEAN
    /\ cursor = NoLevel

NextWeb ==
    \/ \E level \in ClickedLevels : ClickLevel(level)
    \/ ChangeSelection
    \/ RegenerateCompleted
    \/ ReopenLevel
    \/ GenerateFirst
    \/ GenerateAgain
    \/ SelectHypothesis
    \/ SkipLevel

SpecWeb == InitWeb /\ [][NextWeb]_vars

\* the pipeline of the orchestrator, with or without a gateway
InitPipe ==
    /\ InitScheduler
    /\ InitAnalytics
    /\ InitEngine
    /\ InitScreen
    /\ InitPipeline
    /\ llm_client \in BOOLEAN
    /\ cursor = NoLevel

NextPipe ==
    \/ StartOnboarding
    \/ \E level \in PipeLevels : GenerateLevel(level)
    \/ \E reply \in RepliesOf(llm_client, ExpansionReplies) :
           ExpandAudienceInsights(reply)
    \/ \E pr \in RepliesOf(llm_client, PipePillarReplies),
          mr \in RepliesOf(llm_client, MessageReplies) :
           GenerateContentStrategy(pr, mr, 0)
    \/ \E count \in PipeCounts, mode \in RepliesOf(llm_client, PipeModes) :
           batches < MaxPipeBatches /\ GenerateContentBatch(count, mode)

SpecPipe == InitPipe /\ [][NextPipe]_vars

\* the batches of an agent that has a strategy: the agent after start_onboarding,
\* expand_audience_insights and generate_content_strategy, for every gateway
\* answer those three calls can get
InitBatch ==
    /\ InitScheduler
    /\ InitAnalytics
    /\ InitEngine
    /\ InitScreen
    /\ cursor = NoLevel
    /\ llm_client \in BOOLEAN
    /\ \E ar \in RepliesOf(llm_client, AnalysisReplies),
          er \in RepliesOf(llm_client, ExpansionReplies),
          pr \in RepliesOf(llm_client, BatchPillarReplies),
          mr \in RepliesOf(llm_client, MessageReplies) :
           LET r == ExpansionResults(llm_client, er)
               insight == AudienceInsight(hypotheses, r.value)
           IN /\ r.is_object
              /\ ~PillarsPromptRaises(insight)
              /\ product_profile = <<ProductProfile(llm_client, ar)>>
              /\ audience_insights = <<insight>>
              /\ strategy = <<generate_strategy(llm_client, product_profile[1],
                                                 insight, pr, mr, 0)>>
    /\ current_stage = "content_generation"
    /\ content_history = <<>>
    /\ batches = 0
    /\ pipeCall = NoPipeCall

NextBatch ==
    \E count \in BatchCounts, mode \in RepliesOf(llm_client, GatewayModes) :
        batches < MaxBatches /\ GenerateContentBatch(count, mode)

SpecBatch == InitBatch /\ [][NextBatch]_vars

\* strategy synthesis alone: the agent after start_onboarding and
\* expand_audience_insights, for every gateway answer those two calls can get,
\* and every answer and date a synthesis can meet
InitStrategy ==
    /\ InitScheduler
    /\ InitAnalytics
    /\ InitEngine
    /\ InitScreen
    /\ cursor = NoLevel
    /\ llm_client \in BOOLEAN
    /\ \E ar \in RepliesOf(llm_client, AnalysisReplies),
          er \in RepliesOf(llm_client, ExpansionReplies) :
           LET r == ExpansionResults(llm_client, er)
           IN /\ r.is_object
              /\ product_profile = <<ProductProfile(llm_client, ar)>>
              /\ audience_insights = <<AudienceInsight(hypotheses, r.value)>>
    /\ strategy = None
    /\ current_stage = "strategy_generation"
    /\ content_history = <<>>
    /\ batches = 0
    /\ pipeCall = NoPipeCall

NextStrategy ==
    \E pr \in RepliesOf(llm_client, PillarReplies),
       mr \in RepliesOf(llm_client, MessageReplies),
       current_date \in CalendarDays :
        GenerateContentStrategy(pr, mr, current_date)

SpecStrategy == InitStrategy /\ [][NextStrategy]_vars

\* an agent with two generated pieces: approval, the scheduler and the report
InitPublish ==
    /\ InitScheduler
    /\ InitAnalytics
    /\ InitEngine
    /\ InitScreen
    /\ llm_client = FALSE
    /\ cursor = NoLevel
    /\ product_profile = None
    /\ audience_insights = <<>>
    /\ strategy = None
    /\ current_stage = "content_generation"
    /\ content_history = GeneratedHistory
    /\ batches = 0
    /\ pipeCall = NoPipeCall

NextPublish ==
    \/ \E content_ids \in ApprovedIds, start_date \in ApprovedStartDays,
          channels \in ApprovedChannels :
           ApproveAndScheduleContent(content_ids, start_date, channels)
    \/ \E post_id \in NamedPosts(schedule) : MarkAsPublished(post_id)
    \/ \E days \in ReportDays, draw \in DemoDraws :
           GetAnalyticsReport(days, [i \in DOMAIN content_history |-> draw])
    \/ Tick

SpecPublish == InitPublish /\ [][NextPublish]_vars

\* the same agent: approval and the calls of the scheduler
NextUpcoming ==
    \/ \E content_ids \in ApprovedIds, start_date \in ApprovedStartDays,
          channels \in ApprovedChannels :
           ApproveAndScheduleContent(content_ids, start_date, channels)
    \/ \E post_id \in NamedPosts(schedule) : MarkAsPublished(post_id)
    \/ \E post_id \in NamedPosts(schedule) : UpdatePostStatus(post_id, "active")
    \/ \E a \in AddedPosts :
           /\ ScheduledCount(schedule, schedule_keys) < MaxScheduled
           /\ AddToSchedule(a.content, a.scheduled_time, a.channel)
    \/ \E channel \in UpcomingChannels, days \in UpcomingDays :
           GetUpcomingPosts(channel, days)
    \/ Tick

SpecUpcoming == InitPublish /\ [][NextUpcoming]_vars

\* the analytics of an agent with two generated pieces
NextAnalytics ==
    \E content \in DOMAIN content_history, metrics_data \in TrackedData :
        TrackContent(content, metrics_data)

SpecAnalytics == InitPublish /\ [][NextAnalytics]_vars

\* ------------------------------------------------------------------------
\* C1
\* ------------------------------------------------------------------------

\* the posts of all channels of a schedule, as <<channel, position>> pairs
PostKeys(s) == {<<c, k>> : c \in DOMAIN s, k \in 1..MaxPieces + 1} \cap
               UNION {{<<c, k>> : k \in DOMAIN s[c]} : c \in DOMAIN s}

TotalPosts(s) == Cardinality(PostKeys(s))

AfterCreateSchedule == schedCall.op = "create_schedule"

\* C1 as the specification states it: after create_schedule with two or more
\* channels no piece is referenced by two posts over all channels, and the total
\* number of posts over all channels does not exceed the number of pieces.
C1_SharedCursor ==
    (AfterCreateSchedule /\ Len(schedCall.channels) >= 2) =>
        /\ \A p \in PostKeys(schedule), q \in PostKeys(schedule) :
               schedule[p[1]][p[2]].content = schedule[q[1]][q[2]].content => p = q
        /\ TotalPosts(schedule) <= Len(schedCall.content_pieces)

\* C1 (amended): after create_schedule with two or more channels the piece cursor
\* is per channel: the k-th post of every channel references the k-th piece of the
\* list, so within one channel no list position is scheduled twice, no channel
\* holds more posts than there are pieces, and every channel starts again from
\* the first piece.
C1_PerChannelCursor ==
    (AfterCreateSchedule /\ Len(schedCall.channels) >= 2) =>
        /\ DOMAIN schedule = Range(schedCall.channels)
        /\ \A c \in DOMAIN schedule :
               /\ Len(schedule[c]) <= Len(schedCall.content_pieces)
               /\ \A k \in DOMAIN schedule[c] :
                      schedule[c][k].content = schedCall.content_pieces[k]
               /\ (Len(schedCall.content_pieces) > 0 /\ schedCall.posts_per_week > 0)
                      => Len(schedule[c]) > 0

\* 12 pieces, two distinct channels, 5 posts per week: both channels hold posts
C1_Witness ==
    /\ AfterCreateSchedule
    /\ Len(schedCall.content_pieces) = 12
    /\ schedCall.posts_per_week = 5
    /\ Cardinality(DOMAIN schedule) = 2
    /\ \A c \in DOMAIN schedule :
           Len(schedule[c]) = 12 /\ schedule[c][1].content = 1

\* ------------------------------------------------------------------------
\* C2
\* ------------------------------------------------------------------------

AfterGenerate == genCall.op = "generate_hypotheses"

\* C2: a caller that starts at "market" and keeps applying _get_next_level visits
\* market, niche, audience, segment, pain, task once each in that order and then
\* gets None; for "task" and for every unrecognized level name the result is None.
C2_NextLevelWalk ==
    /\ (visited # <<>> /\ visited[1] = "market") =>
           /\ Len(visited) <= Len(LevelOrder)
           /\ \A i \in DOMAIN visited : visited[i] = LevelOrder[i]
           /\ (cursor = NoLevel) <=> (visited = LevelOrder)
           /\ cursor # NoLevel => cursor = LevelOrder[Len(visited) + 1]
    /\ (AfterGenerate /\ genCall.level \in {"task"} \cup UnknownLevels) =>
           genCall.next_level = NoLevel /\ cursor = NoLevel

\* the walk from "market" has come to its end
C2_Witness == visited = LevelOrder /\ cursor = NoLevel /\ genCall.level = "task"

\* ------------------------------------------------------------------------
\* C3
\* ------------------------------------------------------------------------

Earlier(e, level) == e \in Levels /\ LevelIndex(e) < LevelIndex(level)

\* a step in which the screen called generate_hypotheses
GenerationStep == genCount' = genCount + 1

\* C3 as the specification states it: hypotheses for a level are generated only
\* after every strictly-earlier level has been generated and completed.
C3_FixedOrder ==
    [][GenerationStep =>
           \A e \in Levels :
               Earlier(e, genCall'.level) =>
                   e \in DOMAIN hypotheses /\ hypothesis_levels[e].completed]_vars

\* C3 (amended): the order of the levels is offered, not enforced.  The screen
\* generates hypotheses only for the level that is selected, and only while that
\* level is not marked complete; the step stores the batch for that level, leaves
\* it incomplete and without a selection, and changes no other level.  Levels
\* before it need not have been generated or completed.
C3_SelectedLevelOnly ==
    [][GenerationStep =>
           LET level == genCall'.level
           IN /\ level = selected_hypothesis_level
              /\ selected_hypothesis_level' = selected_hypothesis_level
              /\ ~hypothesis_levels[level].completed
              /\ hypothesis_levels'[level] =
                     LevelState(FALSE, None, genCall'.results.hypotheses)
              /\ \A l \in Levels \ {level} :
                     hypothesis_levels'[l] = hypothesis_levels[l]]_vars

\* hypotheses for "task" were generated while "market" has never been generated
C3_Witness ==
    /\ AfterGenerate
    /\ genCall.level = "task"
    /\ "task" \in DOMAIN hypotheses
    /\ "market" \notin DOMAIN hypotheses
    /\ hypothesis_levels["task"].hypotheses # <<>>
    /\ ~hypothesis_levels["market"].completed

\* ------------------------------------------------------------------------
\* C4
\* ------------------------------------------------------------------------

\* C4: the gateway calls of one generate_hypotheses call follow the model list in
\* order, strict-JSON before free-form for each model; every call but the last
\* one raised (so a free-form attempt follows only a strict-JSON attempt that
\* raised, the next model follows only two attempts that raised, and nothing
\* follows an attempt that parsed); there are at most two calls per model, six
\* in all.
C4_FallbackOrder ==
    AfterGenerate =>
        LET calls == genCall.calls
        IN /\ Len(calls) <= 2 * Len(models_to_try)
           /\ Len(calls) <= 6
           /\ \A i \in DOMAIN calls :
                  /\ calls[i].model = <<"gpt-4o-mini", "gpt-4o", "gpt-3.5-turbo">>[(i + 1) \div 2]
                  /\ calls[i].mode = IF i % 2 = 1 THEN "json" ELSE "free"
                  /\ i < Len(calls) => calls[i].raised
           /\ (genCall.client /\ genCall.level \in Levels) => Len(calls) >= 1

\* the second model answers in free-form mode after three attempts that raised
C4_Witness ==
    /\ AfterGenerate
    /\ Len(genCall.calls) = 4
    /\ ~genCall.calls[4].raised
    /\ genCall.calls[4].model = "gpt-4o"
    /\ genCall.calls[4].mode = "free"

\* ------------------------------------------------------------------------
\* C5
\* ------------------------------------------------------------------------

AllAttemptsRaised ==
    /\ Len(genCall.calls) = 2 * Len(models_to_try)
    /\ \A i \in DOMAIN genCall.calls : genCall.calls[i].raised

\* C5: when generate_hypotheses has no gateway (and then makes no gateway call) or
\* every attempt of every model raised, the returned and stored batch is the
\* placeholder batch: 10 hypotheses, each with a name that carries the level
\* name, a description, exactly 2 characteristics and the generic potential.
C5_PlaceholderBatch ==
    (AfterGenerate /\ (~genCall.client \/ AllAttemptsRaised)) =>
        LET batch == genCall.results.hypotheses
        IN /\ ~genCall.client => genCall.calls = <<>>
           /\ Len(batch) = 10
           /\ \A i \in DOMAIN batch :
                  /\ batch[i].name # <<>>
                  /\ batch[i].name[2] = i
                  /\ batch[i].name[4] = genCall.level
                  /\ batch[i].description # <<>>
                  /\ Len(batch[i].characteristics) = 2
                  /\ batch[i].potential = "Potential of the hypothesis"
           /\ genCall.level \in DOMAIN hypotheses
           /\ hypotheses[genCall.level].hypotheses = batch

\* every attempt of every model raised and the placeholder batch is stored
C5_Witness ==
    /\ AfterGenerate
    /\ genCall.client
    /\ AllAttemptsRaised
    /\ Len(hypotheses[genCall.level].hypotheses) = 10

\* ------------------------------------------------------------------------
\* C6
\* ------------------------------------------------------------------------

\* the last call was generate_content_batch on an agent that has a strategy
AfterBatch == pipeCall.op = "generate_content_batch" /\ strategy # None

\* C6: generate_content_batch(count), for any count >= 1 and any existing
\* strategy, returns a list of exactly count ContentPiece items, also when every
\* gateway call of the batch fails and when count exceeds the calendar slots.
C6_ExactCount ==
    (AfterBatch /\ pipeCall.count >= 1) =>
        /\ ~pipeCall.raised
        /\ Len(pipeCall.returned) = pipeCall.count

\* a batch larger than the calendar, with the gateway down, left by an exception
C6_Witness ==
    /\ AfterBatch
    /\ pipeCall.count > CalendarSlots
    /\ pipeCall.replies = <<"down">>
    /\ pipeCall.raised
    /\ pipeCall.returned = <<>>

\* ------------------------------------------------------------------------
\* C7
\* ------------------------------------------------------------------------

\* C7: in generate_content_batch an exception raised while one item is generated,
\* in the calendar phase or in the shortfall phase, is caught for that item and
\* replaced by an error-marked placeholder piece at that position; the batch is
\* not aborted and the remaining items are generated.
C7_ItemIsolation ==
    (AfterBatch /\ pipeCall.item_errors # {}) =>
        /\ ~pipeCall.raised
        /\ Len(pipeCall.returned) = pipeCall.count
        /\ \A i \in pipeCall.item_errors :
               /\ i \in DOMAIN pipeCall.returned
               /\ pipeCall.returned[i].content = "error text"

\* the generation of the first calendar slot raised and the batch was aborted
C7_Witness ==
    /\ AfterBatch
    /\ pipeCall.item_errors = {1}
    /\ pipeCall.raised
    /\ pipeCall.cause = "shape"
    /\ content_history = <<>>

\* ------------------------------------------------------------------------
\* C8
\* ------------------------------------------------------------------------

\* the positions of a returned batch whose gateway call raised
RaisedPositions(mode, count) == {i \in 1..count : ReplyAt(mode, i - 1) = "raise"}

\* C8: no call of generate_hypotheses, expand_audience_insights,
\* generate_content_strategy or generate_content_batch (and so of generate_content)
\* raises to its caller because a gateway call raised; the call returns its
\* fallback result: the placeholder hypotheses, the rule-based expansion, the
\* static pillars and the templated key messages, the error text of the piece.
C8_GatewayCaught ==
    /\ pipeCall.raised => pipeCall.cause # "gateway"
    /\ pipeCall.gateway_raised =>
           /\ ~pipeCall.raised
           /\ pipeCall.fallback
           /\ pipeCall.op = "generate_hypotheses" =>
                  /\ genCall.results.hypotheses = PlaceholderBatch(genCall.level)
                  /\ hypotheses[genCall.level] = genCall.results
           /\ pipeCall.op = "expand_audience_insights" =>
                  audience_insights =
                      <<AudienceInsight(hypotheses, RuleBasedExpansion)>>
           /\ pipeCall.op = "generate_content_strategy" =>
                  /\ pipeCall.replies[1] = "raise" =>
                         strategy[1].content_pillars = FallbackPillars
                  /\ pipeCall.replies[2] = "raise" =>
                         /\ Len(strategy[1].key_messages) = 3
                         /\ strategy[1].key_messages[1][1] = "value proposition"
           /\ pipeCall.op = "generate_content_batch" =>
                  /\ Len(pipeCall.returned) = pipeCall.count
                  /\ \A i \in RaisedPositions(pipeCall.replies[1], pipeCall.count) :
                         pipeCall.returned[i].content = "gateway error text"

\* a batch whose gateway calls all raised returned its pieces, on a strategy
\* that was itself built while the gateway raised
C8_Witness ==
    /\ AfterBatch
    /\ pipeCall.gateway_raised
    /\ ~pipeCall.raised
    /\ pipeCall.replies = <<"down">>
    /\ pipeCall.returned[1].content = "gateway error text"
    /\ strategy[1].content_pillars = FallbackPillars

\* ------------------------------------------------------------------------
\* C9
\* ------------------------------------------------------------------------

\* the answers C9 names: the call fails, the text is not JSON, the JSON is no
\* object, the object lacks the keys
FaultyExpansionReplies == {"raise", "prose", "array", "object_no_keys"}

\* C9: expand_audience_insights never raises to its caller; when the gateway call
\* fails, the response is not JSON, the JSON has the wrong shape or keys are
\* missing, it falls back to the rule-based expansion and returns an
\* AudienceInsight of the full shape.
C9_ExpandNeverRaises ==
    pipeCall.op = "expand_audience_insights" =>
        /\ ~pipeCall.raised
        /\ audience_insights # <<>>
        /\ pipeCall.replies[1] \in FaultyExpansionReplies =>
               /\ pipeCall.fallback
               /\ audience_insights =
                      <<AudienceInsight(hypotheses, RuleBasedExpansion)>>

\* the gateway answered with a JSON array and the call raised, with no insight
C9_Witness ==
    /\ pipeCall.op = "expand_audience_insights"
    /\ pipeCall.replies = <<"array">>
    /\ pipeCall.raised
    /\ pipeCall.error = "AttributeError"
    /\ audience_insights = <<>>

\* ------------------------------------------------------------------------
\* C10
\* ------------------------------------------------------------------------

\* the step rejected the call with this error and left the state as it was
Rejected(error) ==
    /\ pipeCall'.raised
    /\ pipeCall'.error = error
    /\ UNCHANGED <<strategy, current_stage, content_history>>

\* C10: generate_content_strategy without a product profile is rejected with the
\* product-profile error, with a profile but empty audience insights with the
\* audience-insights error, generate_content_batch without a strategy with its
\* own error; the three errors differ, and a rejected call leaves strategy,
\* current_stage and the content history as they were.
C10_Rejections ==
    [][/\ Cardinality({ProductError, InsightsError, StrategyError}) = 3
       /\ pipeCall'.op = "generate_content_strategy" =>
              /\ product_profile = None => Rejected(ProductError)
              /\ (product_profile # None /\ audience_insights = <<>>) =>
                     Rejected(InsightsError)
       /\ (pipeCall'.op = "generate_content_batch" /\ strategy = None) =>
              Rejected(StrategyError)
       /\ pipeCall'.cause = "precondition" =>
              UNCHANGED <<strategy, current_stage, content_history, batches,
                          product_profile, audience_insights>>]_vars

\* the strategy was asked for after onboarding and before the expansion
C10_Witness ==
    /\ pipeCall.op = "generate_content_strategy"
    /\ pipeCall.raised
    /\ pipeCall.error = InsightsError
    /\ product_profile # None
    /\ audience_insights = <<>>
    /\ strategy = None
    /\ current_stage = "deep_impact_audit"

\* ------------------------------------------------------------------------
\* C11
\* ------------------------------------------------------------------------

\* the last call was expand_audience_insights and it returned
AfterExpand == pipeCall.op = "expand_audience_insights" /\ ~pipeCall.raised

\* the text C11 gives a field of the insight: the final choice of the level, the
\* empty string when the level was never generated or nothing was selected
ChoiceOrEmpty(stored, level) ==
    IF level \in DOMAIN stored /\ stored[level].final_choice # None
        THEN stored[level].final_choice
        ELSE Text("")

\* C11: after expand_audience_insights main_pain, main_task and target_segment
\* are the final choices of the pain, task and segment LevelResults, and the
\* empty string when the level has no final choice, whether the level was never
\* generated or was generated with nothing selected.
C11_FinalChoices ==
    AfterExpand =>
        /\ audience_insights[1].main_pain = ChoiceOrEmpty(hypotheses, "pain")
        /\ audience_insights[1].main_task = ChoiceOrEmpty(hypotheses, "task")
        /\ audience_insights[1].target_segment = ChoiceOrEmpty(hypotheses, "segment")

\* "pain" was generated with nothing selected, "task" never: main_pain is None
\* and main_task the empty string
C11_Witness ==
    /\ AfterExpand
    /\ "pain" \in DOMAIN hypotheses
    /\ hypotheses["pain"].final_choice = None
    /\ "task" \notin DOMAIN hypotheses
    /\ audience_insights[1].main_pain = None
    /\ audience_insights[1].main_task = Text("")

\* ---------------------------------------------------------------------------
\* C12: when hypotheses are generated for a level through a gateway, the
\* prompt context holds the selected hypothesis of every earlier level the
\* user has selected one for, and holds no choice of that level or a later one
\* ---------------------------------------------------------------------------
PromptBuilt == genCall.op = "generate_hypotheses" /\ genCall.client

\* the levels the prompt context carries a choice of
ContextLevels == {genCall.previous_levels[i].level : i \in DOMAIN genCall.previous_levels}

\* the earlier levels the user had selected a hypothesis of when the call was made
ChosenBefore == {genCall.input_data[i].level : i \in DOMAIN genCall.input_data}

C12_PromptContext ==
    PromptBuilt =>
        /\ ChosenBefore \subseteq ContextLevels
        /\ \A e \in ContextLevels :
               e \in Levels /\ LevelIndex(e) < LevelIndex(genCall.level)

\* niche is generated through the gateway after a market hypothesis was
\* selected, and the prompt context carries no choice
C12_Witness ==
    /\ PromptBuilt
    /\ genCall.level = "niche"
    /\ ChosenBefore = {"market"}
    /\ genCall.input_data[1].choice = hypothesis_levels["market"].selected
    /\ genCall.previous_levels = <<>>

\* ---------------------------------------------------------------------------
\* C13: generate_hypotheses(level) stores its LevelResult under the key level;
\* a later call for the same level replaces the earlier result as a whole, its
\* final choice being none again, and the results of the other levels stay
\* as they were
\* ---------------------------------------------------------------------------
C13_StoredUnderLevel ==
    [][GenerationStep =>
          LET level == genCall'.level
          IN /\ genCall'.op = "generate_hypotheses"
             /\ DOMAIN hypotheses' = DOMAIN hypotheses \cup {level}
             /\ hypotheses'[level] = genCall'.results
             /\ hypotheses'[level].stage = level
             /\ hypotheses'[level].final_choice = None
             /\ \A l \in DOMAIN hypotheses \ {level} : hypotheses'[l] = hypotheses[l]]_vars

\* market was generated twice: the result of the later call, the two
\* hypotheses of the gateway, is the one stored, and nothing else is stored
C13_Witness ==
    /\ genCount = 2
    /\ DOMAIN hypotheses = {"market"}
    /\ genCall.level = "market"
    /\ genCall.parsed_ok
    /\ hypotheses["market"].hypotheses = ModelItems(2)
    /\ hypothesis_levels["market"].hypotheses = ModelItems(2)

\* ---------------------------------------------------------------------------
\* C14: the batch generate_hypotheses stores and returns holds at most 12
\* hypotheses; when the gateway returned more than 12, the batch is the first
\* 12 of them
\* ---------------------------------------------------------------------------
C14_AtMostTwelve ==
    /\ \A l \in DOMAIN hypotheses : Len(hypotheses[l].hypotheses) <= MaxHypotheses
    /\ Len(genCall.results.hypotheses) <= MaxHypotheses
    /\ genCall.parsed_ok /\ genCall.parsed_len > MaxHypotheses =>
           /\ genCall.results.hypotheses =
                  SubSeq(ModelItems(genCall.parsed_len), 1, MaxHypotheses)
           /\ hypotheses[genCall.level].hypotheses = genCall.results.hypotheses

\* the gateway answered with 13 hypotheses and 12 are stored
C14_Witness ==
    /\ genCall.parsed_ok
    /\ genCall.parsed_len = MaxHypotheses + 1
    /\ Len(hypotheses[genCall.level].hypotheses) = MaxHypotheses
    /\ hypotheses[genCall.level].hypotheses[MaxHypotheses] = ModelHypothesis(MaxHypotheses)

\* ---------------------------------------------------------------------------
\* C15: the selection of a level.  As stated: selecting a hypothesis sets the
\* final choice of the level and marks it complete, "regenerate" and "change
\* selection" both empty its hypotheses and its final choice and return it to
\* incomplete, and so a level marked complete always has a final choice
\* ---------------------------------------------------------------------------
Current == hypothesis_levels[selected_hypothesis_level]

CurrentAfter == hypothesis_levels'[selected_hypothesis_level]

C15_CompleteHasChoice ==
    [][/\ SelectHypothesis => CurrentAfter.completed /\ CurrentAfter.selected # None
       /\ ChangeSelection \/ RegenerateCompleted =>
              /\ CurrentAfter.hypotheses = <<>>
              /\ CurrentAfter.selected = None
              /\ ~CurrentAfter.completed
       /\ \A l \in Levels :
              hypothesis_levels'[l].completed => hypothesis_levels'[l].selected # None]_vars

\* C15 as the screen behaves: selecting stores a hypothesis of the list and marks
\* the level complete; "regenerate" empties the list and the selection and
\* reopens the level; "change selection" empties the selection and reopens the
\* level with its list kept; "skip" marks the level complete with no selection.
\* So a level that has a selection is complete and its selection is one of its
\* hypotheses, while a complete level may have no selection.
C15_SelectedIsComplete ==
    [][/\ SelectHypothesis =>
              /\ CurrentAfter.completed
              /\ \E i \in DOMAIN Current.hypotheses :
                     CurrentAfter.selected = <<Current.hypotheses[i]>>
              /\ CurrentAfter.hypotheses = Current.hypotheses
       /\ RegenerateCompleted =>
              CurrentAfter = LevelState(FALSE, None, <<>>)
       /\ ChangeSelection =>
              /\ CurrentAfter = LevelState(FALSE, None, Current.hypotheses)
              /\ Current.hypotheses # <<>>
       /\ SkipLevel =>
              CurrentAfter = LevelState(TRUE, Current.selected, Current.hypotheses)
       /\ \A l \in Levels :
              hypothesis_levels'[l].selected # None =>
                  /\ hypothesis_levels'[l].completed
                  /\ \E i \in DOMAIN hypothesis_levels'[l].hypotheses :
                         hypothesis_levels'[l].selected =
                             <<hypothesis_levels'[l].hypotheses[i]>>]_vars

\* market is complete with its last hypothesis selected, and niche is complete
\* with hypotheses and no selection: it was skipped
C15_Witness ==
    LET market == hypothesis_levels["market"]
        niche == hypothesis_levels["niche"]
    IN /\ market.completed
       /\ market.selected = <<market.hypotheses[Len(market.hypotheses)]>>
       /\ niche.completed
       /\ niche.selected = None
       /\ niche.hypotheses # <<>>

\* ---------------------------------------------------------------------------
\* C19: create_schedule is idempotent.  After a call the scheduler holds the
\* posts that call builds from its arguments and nothing of what it held
\* before, so a second call with the same arguments leaves the same posts of
\* every channel (ids, pieces and times) as the first
\* ---------------------------------------------------------------------------
BuiltByCall ==
    create_schedule(schedCall.content_pieces, schedCall.start_date,
                    schedCall.channels, schedCall.posts_per_week)

C19_Idempotent ==
    /\ [](AfterCreateSchedule =>
             /\ schedule = BuiltByCall
             /\ DOMAIN schedule = Range(schedule_keys)
             /\ \A c \in DOMAIN schedule : \A k \in DOMAIN schedule[c] :
                    /\ schedule[c][k].status = "draft"
                    /\ ~schedule[c][k].published)
    /\ [][AfterCreateSchedule' /\ schedCall'.repeat =>
              schedule' = schedule /\ schedule_keys' = schedule_keys]_vars

\* a second call with the same arguments, six pieces on two channels, has left
\* the six posts of each channel
C19_Witness ==
    /\ AfterCreateSchedule
    /\ schedCall.repeat
    /\ schedCall.channels = <<"linkedin", "twitter">>
    /\ Len(schedCall.content_pieces) = 6
    /\ schedCall.posts_per_week = 5
    /\ Len(schedule["linkedin"]) = 6
    /\ Len(schedule["twitter"]) = 6

\* ---------------------------------------------------------------------------
\* C16: over the calls of approve_and_schedule_content, mark_as_published and
\* get_analytics_report the status of a content piece only moves forward in
\* the order draft, approved, scheduled, published, archived
\* ---------------------------------------------------------------------------
StatusOrder == <<"draft", "approved", "scheduled", "published", "archived">>

StatusRank(status) == CHOOSE i \in DOMAIN StatusOrder : StatusOrder[i] = status

C16_StatusForward ==
    [][\A i \in DOMAIN content_history :
           StatusRank(content_history'[i].status) >=
               StatusRank(content_history[i].status)]_vars

\* the first piece was published, by the report, and is approved again
C16_Witness ==
    /\ schedCall.op = "approve_and_schedule_content"
    /\ content_history[1].published_at # None
    /\ content_history[1].status = "approved"

\* ---------------------------------------------------------------------------
\* C17: mark_as_published(post_id) on an id some post has sets the published
\* flag and published_at of that post, sets the status of the content piece of
\* the post to published and returns true; on an id no post has it returns
\* false and changes no post and no content piece
\* ---------------------------------------------------------------------------
Positions(held) ==
    UNION {{<<c, k>> : k \in DOMAIN held[c]} : c \in DOMAIN held}

C17_MarkAsPublished ==
    [][schedCall'.op = "mark_as_published" /\ now' = now =>
          LET post_id == schedCall'.post_id
          IN IF post_id \in PostIds(schedule)
                 THEN /\ schedCall'.returned
                      /\ \E at \in Positions(schedule) :
                             LET post == schedule[at[1]][at[2]]
                             IN /\ post.id = post_id
                                /\ schedule' =
                                       [schedule EXCEPT
                                            ![at[1]][at[2]].published = TRUE,
                                            ![at[1]][at[2]].published_at = <<now>>]
                                /\ content_history' =
                                       [content_history EXCEPT
                                            ![post.content].status = "published"]
                 ELSE /\ ~schedCall'.returned
                      /\ schedule' = schedule
                      /\ content_history' = content_history]_vars

\* two posts of a channel have the id marked: the first is published, the
\* second is not, and the piece of the first has the status published
C17_Witness ==
    /\ schedCall.op = "mark_as_published"
    /\ schedCall.returned
    /\ \E c \in DOMAIN schedule : \E k \in DOMAIN schedule[c] :
           /\ k + 1 \in DOMAIN schedule[c]
           /\ schedule[c][k].id = schedCall.post_id
           /\ schedule[c][k + 1].id = schedCall.post_id
           /\ schedule[c][k].published
           /\ schedule[c][k].published_at = <<now>>
           /\ ~schedule[c][k + 1].published
           /\ content_history[schedule[c][k].content].status = "published"

\* ---------------------------------------------------------------------------
\* C18: get_upcoming_posts(channel, days).  As stated: it returns exactly the
\* posts, of the channel given or of all channels, that are active, not
\* published and scheduled at most days after now, in ascending order of time;
\* in particular a post create_schedule or add_to_schedule has just created is
\* returned once its time is within the window
\* ---------------------------------------------------------------------------
AfterUpcoming == schedCall.op = "get_upcoming_posts"

\* the places of the schedule the call looks at
Looked ==
    {at \in Positions(schedule) :
        schedCall.channel = NoChannel \/ at[1] = schedCall.channel}

InWindow(post) ==
    ~post.published /\ post.scheduled_time <= schedCall.time + Days(schedCall.days)

\* the list returned holds every post of the places given once, in ascending
\* order of time
ReturnsExactly(places) ==
    LET returned == schedCall.returned
    IN /\ Len(returned) = Cardinality(places)
       /\ \A at \in places :
              Cardinality({i \in DOMAIN returned : returned[i] = schedule[at[1]][at[2]]})
                  = Cardinality({bt \in places : schedule[bt[1]][bt[2]] =
                                                     schedule[at[1]][at[2]]})
       /\ \A i, j \in DOMAIN returned :
              i < j => returned[i].scheduled_time <= returned[j].scheduled_time

\* a post as create_schedule and add_to_schedule leave it
JustCreated(post) == post.status = "draft" /\ ~post.published

C18_CreatedIsUpcoming ==
    AfterUpcoming =>
        /\ ReturnsExactly({at \in Looked :
                              /\ InWindow(schedule[at[1]][at[2]])
                              /\ schedule[at[1]][at[2]].status = "active"})
        /\ \A at \in Looked :
               LET post == schedule[at[1]][at[2]]
               IN JustCreated(post) /\ InWindow(post) =>
                      post \in Range(schedCall.returned)

\* C18 as the scheduler behaves: the list returned is exactly the active,
\* unpublished posts within the window, in ascending order of time; the posts
\* create_schedule and add_to_schedule create have the status draft, and a post
\* in that status is not returned, within the window or not
C18_ActiveOnly ==
    /\ schedCall.op \in {"approve_and_schedule_content", "create_schedule"} =>
           \A at \in Positions(schedule) : JustCreated(schedule[at[1]][at[2]])
    /\ schedCall.op = "add_to_schedule" =>
           /\ JustCreated(schedCall.returned)
           /\ schedCall.returned \in Range(schedule[schedCall.channel])
    /\ AfterUpcoming =>
           /\ ReturnsExactly({at \in Looked :
                                 /\ InWindow(schedule[at[1]][at[2]])
                                 /\ schedule[at[1]][at[2]].status = "active"})
           /\ \A i \in DOMAIN schedCall.returned :
                  ~JustCreated(schedCall.returned[i])

\* a day after the epoch, with the first posts of linkedin and twitter
\* activated: all channels and one day ahead give the twitter post of 08:00
\* before the linkedin post of 09:00, and the posts of the day in the status
\* draft are left out
C18_Witness ==
    /\ AfterUpcoming
    /\ schedCall.channel = NoChannel
    /\ schedule_keys = <<"linkedin", "twitter">>
    /\ Len(schedCall.returned) = 2
    /\ schedCall.returned[1] = schedule["twitter"][1]
    /\ schedCall.returned[2] = schedule["linkedin"][1]
    /\ \E at \in Looked :
           JustCreated(schedule[at[1]][at[2]]) /\ InWindow(schedule[at[1]][at[2]])

\* ---------------------------------------------------------------------------
\* C20: after any calls of track_content, a ContentMetrics record whose
\* impressions are 0 has the engagement_rate 0, whatever its likes, comments
\* and shares are and whatever it held before
\* ---------------------------------------------------------------------------
C20_ZeroImpressionsZeroRate ==
    \A id \in DOMAIN metrics :
        metrics[id].impressions = 0 => metrics[id].engagement_rate = ZeroRate

\* the first piece was tracked with 3 likes on 10 impressions and then with 0
\* impressions: the rate of 30 is still there
C20_Witness ==
    /\ schedCall.op = "track_content"
    /\ schedCall.content = 1
    /\ schedCall.metrics_data = [impressions |-> 0]
    /\ metrics["c1"].impressions = 0
    /\ metrics["c1"].likes = 3
    /\ metrics["c1"].engagement_rate = Rate(300, 10)
    /\ schedCall.returned = metrics["c1"]

\* ---------------------------------------------------------------------------
\* C21: track_content(piece, delta) overwrites each of views, likes, comments,
\* shares, clicks, reach and impressions that delta holds with the value of
\* delta, leaves the fields delta does not hold and the records of the other
\* pieces as they were, and mirrors delta into the metrics map of the piece
\* ---------------------------------------------------------------------------
CountFields == {"views", "likes", "comments", "shares", "clicks", "reach", "impressions"}

\* the value a count of a piece had: 0 when the piece had no record
Prior(id, field) == IF id \in DOMAIN metrics THEN metrics[id][field] ELSE 0

\* the metrics map of a piece had: empty when it was None
PriorOwn(piece) == IF piece.metrics = None THEN <<>> ELSE piece.metrics[1]

C21_TrackOverwrites ==
    [][schedCall'.op = "track_content" =>
          LET content == schedCall'.content
              delta == schedCall'.metrics_data
              id == content_history[content].id
              own == PriorOwn(content_history[content])
              mirrored == content_history'[content].metrics[1]
          IN /\ DOMAIN metrics' = DOMAIN metrics \cup {id}
             /\ \A field \in CountFields :
                    metrics'[id][field] =
                        IF field \in DOMAIN delta THEN delta[field]
                                                  ELSE Prior(id, field)
             /\ \A other \in DOMAIN metrics \ {id} : metrics'[other] = metrics[other]
             /\ DOMAIN mirrored = DOMAIN delta \cup DOMAIN own
             /\ \A k \in DOMAIN mirrored :
                    mirrored[k] = IF k \in DOMAIN delta THEN delta[k] ELSE own[k]
             /\ \A i \in DOMAIN content_history \ {content} :
                    content_history'[i] = content_history[i]]_vars

\* the first piece held 3 likes on 10 impressions and was tracked with 5 likes
\* and 1 comment: the likes are 5, the impressions still 10, and the record of
\* the second piece is there as well
C21_Witness ==
    /\ schedCall.op = "track_content"
    /\ schedCall.content = 1
    /\ schedCall.metrics_data = [likes |-> 5, comments |-> 1]
    /\ metrics["c1"].likes = 5
    /\ metrics["c1"].comments = 1
    /\ metrics["c1"].impressions = 10
    /\ content_history[1].metrics = <<[likes |-> 5, comments |-> 1, impressions |-> 10]>>
    /\ "c2" \in DOMAIN metrics

\* ---------------------------------------------------------------------------
\* C22: generate_report gives, for every group of the groupings by channel, by
\* pillar and by funnel stage, the posts of the group, its summed views, its
\* summed engagement and the mean engagement_rate of its members with a rate
\* above 0; so a group with a member of a rate above 0 has a mean above 0
\* ---------------------------------------------------------------------------
AfterReport == schedCall.op = "get_analytics_report"

\* the pieces of the history within the period of the report
ReportPeriod ==
    LET Within(c) == InPeriod(c, schedCall.report.period_start,
                              schedCall.report.period_end)
    IN SelectSeq(content_history, Within)

GroupStatistics(performance, field) ==
    /\ DOMAIN performance = GroupKeys(ReportPeriod, field)
    /\ \A g \in DOMAIN performance :
           LET members == Members(ReportPeriod, field, g)
               rates == {MetricsOf(metrics, members[i].id).engagement_rate :
                            i \in DOMAIN members}
           IN /\ DOMAIN performance[g] =
                     {"posts", "views", "engagement", "avg_engagement_rate"}
              /\ performance[g].posts = Len(members)
              /\ performance[g].views =
                     SumOf([i \in DOMAIN members |->
                               MetricsOf(metrics, members[i].id).views])
              /\ performance[g].engagement =
                     SumOf([i \in DOMAIN members |->
                               Engagement(MetricsOf(metrics, members[i].id))])
              /\ performance[g].avg_engagement_rate = MeanPositiveRate(metrics, members)
              /\ (\E rate \in rates : rate[1] > 0) =>
                     performance[g].avg_engagement_rate[1] > 0

C22_GroupMeans ==
    AfterReport =>
        /\ GroupStatistics(schedCall.report.channel_performance, "channel")
        /\ GroupStatistics(schedCall.report.pillar_performance, "pillar")
        /\ GroupStatistics(schedCall.report.funnel_stage_performance, "funnel_stage")

\* both pieces are in the period with a rate above 0: the channels have their
\* means, and the pillar of the two has the mean 0
C22_Witness ==
    /\ AfterReport
    /\ Len(ReportPeriod) = 2
    /\ metrics["c1"].engagement_rate[1] > 0
    /\ metrics["c2"].engagement_rate[1] > 0
    /\ GroupStatistics(schedCall.report.channel_performance, "channel")
    /\ schedCall.report.pillar_performance["Education"] =
           [posts |-> 2, avg_engagement_rate |-> ZeroRate]
\* ---------------------------------------------------------------------------
\* C23: two generate_strategy calls with the same product profile and audience
\* insight, both with a gateway that fails, give the same pillars, the same
\* funnel and the same calendar structure (the pillar and the funnel stage of
\* every slot of every week), whatever the dates of the two calls are
\* ---------------------------------------------------------------------------
\* generate_content_strategy returned and every gateway call of it failed
FailedSynthesis(call) ==
    /\ call.op = "generate_content_strategy"
    /\ ~call.raised
    /\ \A i \in DOMAIN call.replies : call.replies[i] \in {"raise", "no gateway"}

CalendarStructure(calendar) ==
    [w \in DOMAIN calendar |->
        [d \in DOMAIN calendar[w].posts |->
            <<calendar[w].posts[d].pillar, calendar[w].posts[d].funnel_stage>>]]

C23_FallbackDeterministic ==
    [][(/\ FailedSynthesis(pipeCall)
        /\ FailedSynthesis(pipeCall')
        /\ product_profile' = product_profile
        /\ audience_insights' = audience_insights)
       => /\ strategy'[1].content_pillars = strategy[1].content_pillars
          /\ strategy'[1].content_funnel = strategy[1].content_funnel
          /\ CalendarStructure(strategy'[1].content_calendar) =
                 CalendarStructure(strategy[1].content_calendar)]_vars

\* a synthesis with a failing gateway on the last Monday of the year
C23_Witness ==
    /\ FailedSynthesis(pipeCall)
    /\ strategy # None
    /\ strategy[1].content_pillars = FallbackPillars
    /\ strategy[1].content_calendar[1].posts[1].date = 364
    /\ strategy[1].content_calendar[1].week = <<2024, 53>>
    /\ strategy[1].content_calendar[2].week = <<2025, 1>>
\* ---------------------------------------------------------------------------
\* C24: every strategy generate_strategy produces has a pillar list that is not
\* empty and holds between 4 and 6 names, whatever the gateway answered; a
\* failing gateway or an answer without a named pillar gives the 6 static names
\* ---------------------------------------------------------------------------
AfterSynthesis == pipeCall.op = "generate_content_strategy" /\ ~pipeCall.raised

C24_PillarCount ==
    AfterSynthesis =>
        /\ strategy[1].content_pillars # <<>>
        /\ Len(strategy[1].content_pillars) \in 4..6
        /\ pipeCall.replies[1] \in {"raise", "no gateway", "array", "no pillars"} =>
               /\ strategy[1].content_pillars = FallbackPillars
               /\ Len(FallbackPillars) = 6

\* the gateway answered with one named pillar, and the strategy holds that one
C24_Witness ==
    /\ AfterSynthesis
    /\ pipeCall.replies[1] = "one pillar"
    /\ strategy[1].content_pillars = <<"Model pillar 1">>
\* ---------------------------------------------------------------------------
\* C26: the calendar of a synthesised strategy has exactly 4 week buckets with
\* pairwise distinct keys and 5 slots each, 20 in all; slot d of week w has the
\* pillar pillars[d mod |pillars|] and the funnel stage stages[w mod 5], so the
\* slots of one week share one funnel stage
\* ---------------------------------------------------------------------------
C26_CalendarShape ==
    AfterSynthesis =>
        LET calendar == strategy[1].content_calendar
            pillars == strategy[1].content_pillars
        IN /\ Len(calendar) = 4
           /\ \A v, w \in DOMAIN calendar : v # w => calendar[v].week # calendar[w].week
           /\ \A w \in DOMAIN calendar :
                  /\ Len(calendar[w].posts) = 5
                  /\ \A d \in DOMAIN calendar[w].posts :
                         /\ calendar[w].posts[d].pillar =
                                pillars[((d - 1) % Len(pillars)) + 1]
                         /\ calendar[w].posts[d].funnel_stage =
                                FunnelStages[((w - 1) % 5) + 1]
                         /\ calendar[w].posts[d].funnel_stage =
                                calendar[w].posts[1].funnel_stage
           /\ SumOf([w \in DOMAIN calendar |-> Len(calendar[w].posts)]) = CalendarSlots

\* a calendar of one pillar that starts on the last Monday of 2024: its weeks
\* lie in two years, and the fourth has the stage "decision"
C26_Witness ==
    /\ AfterSynthesis
    /\ strategy[1].content_pillars = <<"Model pillar 1">>
    /\ strategy[1].content_calendar[1].week = <<2024, 53>>
    /\ strategy[1].content_calendar[4].week = <<2025, 3>>
    /\ strategy[1].content_calendar[4].posts[5].pillar = "Model pillar 1"
    /\ strategy[1].content_calendar[4].posts[5].funnel_stage = "decision"
    /\ strategy[1].content_calendar[4].posts[5].date = 364 + 21 + 4
\* ---------------------------------------------------------------------------
\* C25: for each channel of a create_schedule call with posts_per_week >= 1 and
\* N pieces, with p = min(posts_per_week, 5): the channel gets min(N, 4p) posts;
\* its i-th post (from 0) is on the day start_date + 7 (i div p) + (i mod p) at
\* the optimal time of index (i mod p) mod the number of optimal times; a week
\* never holds more than 5 posts, and the times of a channel strictly increase
\* ---------------------------------------------------------------------------
\* the posts of a channel that fall into the week w (from 0) of the call
PostsOfWeek(posts, w) ==
    {k \in DOMAIN posts :
        posts[k].scheduled_time \div 1440 \in
            (schedCall.start_date + 7 * w)..(schedCall.start_date + 7 * w + 6)}

C25_SlotFormula ==
    (AfterCreateSchedule /\ schedCall.posts_per_week >= 1) =>
        \A channel \in Range(schedCall.channels) :
            LET p == Min(schedCall.posts_per_week, 5)
                N == Len(schedCall.content_pieces)
                posts == schedule[channel]
                times == OptimalTimes(channel)
            IN /\ Len(posts) = Min(N, 4 * p)
               /\ \A k \in DOMAIN posts :
                      LET i == k - 1
                          slot == i % p
                          hm == times[(slot % Len(times)) + 1]
                      IN /\ posts[k].channel = channel
                         /\ posts[k].scheduled_time =
                                DateTime(schedCall.start_date + 7 * (i \div p) + slot,
                                         hm[1], hm[2])
                         /\ k > 1 => posts[k - 1].scheduled_time < posts[k].scheduled_time
               /\ \A w \in 0..3 : Cardinality(PostsOfWeek(posts, w)) <= Min(p, 5)

\* 12 pieces at 6 posts a week from day 3: twitter gets 5 posts a week, and its
\* 6th post opens the second week at 08:00, after the 5th at 08:00 of day 7
C25_Witness ==
    /\ AfterCreateSchedule
    /\ schedCall.posts_per_week = 6
    /\ schedCall.start_date = 3
    /\ Len(schedCall.content_pieces) = 12
    /\ "twitter" \in DOMAIN schedule
    /\ Len(schedule["twitter"]) = 12
    /\ schedule["twitter"][5].scheduled_time = DateTime(7, 8, 0)
    /\ schedule["twitter"][6].scheduled_time = DateTime(10, 8, 0)
    /\ Cardinality(PostsOfWeek(schedule["twitter"], 1)) = 5
\* ---------------------------------------------------------------------------
\* C27: after a generate_hypotheses call the batch stored under the level and
\* the batch returned hold at least one hypothesis, whatever the gateway
\* answered, an empty array or an empty "hypotheses" list included
\* ---------------------------------------------------------------------------
C27_BatchNotEmpty ==
    genCall.op = "generate_hypotheses" =>
        /\ Len(genCall.results.hypotheses) >= 1
        /\ Len(hypotheses[genCall.level].hypotheses) >= 1

\* the gateway answered with a list of no hypotheses, it parsed, and the level
\* holds an empty batch
C27_Witness ==
    /\ genCall.op = "generate_hypotheses"
    /\ genCall.client
    /\ genCall.parsed_ok
    /\ genCall.parsed_len = 0
    /\ genCall.results.hypotheses = <<>>
    /\ hypotheses[genCall.level].hypotheses = <<>>
\* ---------------------------------------------------------------------------
\* C28: in the insight expand_audience_insights produces, main_pain, main_task
\* and target_segment are what the final choices of the levels give; no key
\* of the expansion result replaces them
\* ---------------------------------------------------------------------------
C28_NamedFieldsKept ==
    AfterExpand =>
        /\ audience_insights[1].main_pain = FinalChoice(hypotheses, "pain")
        /\ audience_insights[1].main_task = FinalChoice(hypotheses, "task")
        /\ audience_insights[1].target_segment = FinalChoice(hypotheses, "segment")

\* the answer of the model holds a key "main_pain", and its value is the
\* main_pain of the insight although the pain level has another final choice
C28_Witness ==
    /\ AfterExpand
    /\ pipeCall.replies = <<"object_with_main_pain">>
    /\ "pain" \in DOMAIN hypotheses
    /\ hypotheses["pain"].final_choice # Text("pain of the model")
    /\ audience_insights[1].main_pain = Text("pain of the model")
    /\ audience_insights[1].main_task = FinalChoice(hypotheses, "task")
\* ---------------------------------------------------------------------------
\* C29: every piece a generate_content_batch call returns, the error-marked
\* placeholder pieces included, is in the content history of the agent, so
\* get_content_by_id finds it and approve_and_schedule_content with the ids of
\* the batch schedules from all its pieces; the history only grows, by exactly
\* count per batch
\* ---------------------------------------------------------------------------
BatchReturned == AfterBatch /\ ~pipeCall.raised

ReturnedIds == [i \in DOMAIN pipeCall.returned |-> pipeCall.returned[i].id]

C29_ReturnedInHistory ==
    BatchReturned =>
        /\ \A i \in DOMAIN pipeCall.returned :
               LET found == get_content_by_id(content_history, ReturnedIds[i])
               IN /\ found # NoPiece
                  /\ content_history[found] = pipeCall.returned[i]
        /\ Len(ContentToSchedule(content_history, ReturnedIds)) = Len(pipeCall.returned)
        /\ Len(content_history) >= pipeCall.count

\* a batch of 22 with short answers and pillars named by numbers: the pieces 21
\* and 22 are placeholders no id of the history leads to, while the history
\* has grown by 22
C29_Witness ==
    /\ BatchReturned
    /\ pipeCall.count = 22
    /\ pipeCall.item_errors = {21, 22}
    /\ pipeCall.returned[21].content = "error text"
    /\ get_content_by_id(content_history, ReturnedIds[21]) = NoPiece
    /\ get_content_by_id(content_history, ReturnedIds[20]) # NoPiece
    /\ Len(ContentToSchedule(content_history, ReturnedIds)) = 20
    /\ Len(content_history) >= 22
\* ---------------------------------------------------------------------------
\* C30: after any sequence of create_schedule and add_to_schedule calls no two
\* posts the scheduler holds share an id, so mark_as_published with the id of
\* a held post marks that very post
\* ---------------------------------------------------------------------------
\* the place mark_as_published reaches with an id: the first in the key order
\* of the channels and in the order of the list
MarkedPlace(post_id) ==
    LET hits == {at \in Positions(schedule) : schedule[at[1]][at[2]].id = post_id}
        KeyPlace(c) == CHOOSE k \in DOMAIN schedule_keys : schedule_keys[k] = c
        Before(at, bt) ==
            \/ KeyPlace(at[1]) < KeyPlace(bt[1])
            \/ at[1] = bt[1] /\ at[2] <= bt[2]
    IN CHOOSE at \in hits : \A bt \in hits : Before(at, bt)

C30_UniqueIds ==
    /\ \A at, bt \in Positions(schedule) :
           at # bt => schedule[at[1]][at[2]].id # schedule[bt[1]][bt[2]].id
    /\ \A at \in Positions(schedule) : MarkedPlace(schedule[at[1]][at[2]].id) = at

\* add_to_schedule has put a second post at the minute of a post of the
\* channel: the two share the id, and the id leads to the first one only
C30_Witness ==
    /\ schedCall.op = "add_to_schedule"
    /\ \E c \in DOMAIN schedule : \E k \in DOMAIN schedule[c] :
           /\ k + 1 \in DOMAIN schedule[c]
           /\ schedule[c][k].id = schedule[c][k + 1].id
           /\ schedule[c][k].content # schedule[c][k + 1].content
           /\ MarkedPlace(schedule[c][k + 1].id) = <<c, k>>

====
